---- MODULE Spec2Model ----
(***************************************************************************)
(* A model of the event backbone of the e-commerce microservices:          *)
(*   - EventRegistry and EventBus (server/shared/src/utils/validation.ts), *)
(*   - the Kafka producer / consumer cache of KafkaConnection              *)
(*     (server/shared/src/database/connection.ts).                         *)
(* Promises are modelled by their state: "pending", "fulfilled",           *)
(* "rejected".  JavaScript values are tagged pairs <<kind, content>>.      *)
(***************************************************************************)
EXTENDS Integers, Sequences, FiniteSets, TLC

VARIABLES
    handlers,      \* EventRegistry.handlers: event type -> list of handlers
    dispatches,    \* the calls of EventRegistry.dispatch made so far
    now,           \* the process clock, Date.now()
    producer,      \* KafkaConnection.producer and its physical connection
    kafkaProducer, \* EventBus.kafkaProducer
    redisClient,   \* EventBus.redisClient
    initCall,      \* the promise of the EventBus.initialize() in progress
    topics,        \* the durable log: topic -> list of records
    channels,      \* the pub/sub store: channel -> list of broadcast messages
    writes,        \* the calls of publishEvent / publishRealTimeEvent
    helpers,       \* the calls of the domain publish helpers
    dlcalls,       \* the calls of handleDeadLetterEvent
    consumers,     \* KafkaConnection.consumers: group id -> consumer
    setups,        \* the calls of setupEventConsumer / replayEvents
    invocations,   \* the handler invocations made by the consumers
    physConsumers, \* the consumers KafkaConnection.getConsumer has made
    getCalls,      \* the calls of getProducer() / getConsumer() of callers
    subscribed,    \* the channels the redis client is subscribed to
    listeners,     \* the 'message' listeners attached to the redis client
    inbound,       \* the 'message' events the redis client has emitted
    rtInvocations, \* the handler invocations made by the listeners
    rtCalls,       \* the calls of subscribeToRealTimeEvents
    proc,          \* the process: "running" or "crashed"
    db,            \* DatabaseConnection: isConnected and the client's state
    redis,         \* RedisConnection: isConnected and the client's state
    kafka,         \* KafkaConnection: isConnected and the producers made
    cmCalls,       \* the calls of connect() / disconnect() of the backends
    health,        \* the calls of healthCheck() / healthCheckAll()
    initAlls,      \* the calls of ConnectionManager.initializeAll()
    shutdowns,     \* the signal handler installed and its runs
    limiter        \* the rate limiter: the sorted set of a key and the calls

regVars == <<handlers, dispatches>>
pubVars == <<now, producer, kafkaProducer, redisClient, initCall, topics,
             channels, writes, helpers, dlcalls>>
conVars == <<consumers, setups, invocations, physConsumers, getCalls>>
rtVars == <<subscribed, listeners, inbound, rtInvocations, rtCalls, proc>>
cmVars == <<db, redis, kafka, cmCalls, health>>
mgrVars == <<initAlls, shutdowns>>
rlVars == <<limiter>>
vars == <<handlers, dispatches, now, producer, kafkaProducer, redisClient,
          initCall, topics, channels, writes, helpers, dlcalls, consumers,
          setups, invocations, physConsumers, getCalls, subscribed,
          listeners, inbound,
          rtInvocations, rtCalls, proc, db, redis, kafka, cmCalls, health,
          initAlls, shutdowns, limiter>>

(***************************************************************************)
(* Bounds of the model.                                                    *)
(***************************************************************************)
MaxHandlers == 2     \* registrations made in EventRegistry
MaxDispatch == 1     \* dispatch calls
MaxWrites == 2       \* publishEvent / publishRealTimeEvent calls of callers
MaxHelpers == 1      \* calls of the domain publish helpers
MaxDeadLetters == 1  \* calls of handleDeadLetterEvent
MaxClock == 1        \* last value of Date.now()
MaxSetups == 2       \* setupEventConsumer / replayEvents calls
MaxForeign == 1      \* records written to a topic by other producers
MaxSubscribes == 1   \* subscribeToRealTimeEvents calls
MaxInbound == 2      \* messages the redis client receives
MaxCalls == 3        \* connect() / disconnect() calls
MaxLosses == 1       \* times the redis connection is lost or reports an error
MaxGets == 2         \* getProducer() / getConsumer() calls of callers
MaxHealth == 1       \* healthCheck() / healthCheckAll() calls
MaxInits == 2        \* ConnectionManager.initializeAll() calls
MaxAttempts == 2     \* times the producer sends the batch of one write
MaxSignals == 1      \* termination signals the process receives
MaxRateCalls == 3    \* isRateLimited calls

\* No signal handler installed, no signal received
NoShutdown == [installed |-> "none", runs |-> <<>>]

\* The key of the rate limiter does not exist, no call was made, the client
\* has no command queued
NoLimiter == [entries |-> {}, ttl |-> {}, calls |-> <<>>, queue |-> <<>>]

(***************************************************************************)
(* Promises.                                                               *)
(***************************************************************************)
\* Promise.all over the list ps of promise states: rejected as soon as one
\* input is rejected, fulfilled once all are, pending otherwise.
PromiseAll(ps) ==
    IF \E i \in DOMAIN ps : ps[i] = "rejected" THEN "rejected"
    ELSE IF \A i \in DOMAIN ps : ps[i] = "fulfilled" THEN "fulfilled"
    ELSE "pending"

\* `await p' inside try { ... } catch (error) { log; throw error }: the
\* async function settles as p does.
AwaitRethrow(p) == p

(***************************************************************************)
(* EventRegistry                                                           *)
(***************************************************************************)
RegistryTypes == {"ORDER_CREATED", "USER_CREATED"}
HandlerIds == {"H1", "H2"}

\* A dispatch wrapper without its try/catch: it settles as the handler does.
HandlerWrapper_nocatch(outcome) == outcome

\* The async arrow of dispatch: try { await handler.handle(event) }
\* catch (error) { logger.error(...) }: fulfilled whatever the handler did.
HandlerWrapper(outcome) ==
    IF outcome = "pending" THEN "pending" ELSE "fulfilled"

RECURSIVE SumLen(_, _)
SumLen(f, S) ==
    IF S = {} THEN 0
    ELSE LET t == CHOOSE x \in S : TRUE
         IN Len(f[t]) + SumLen(f, S \ {t})

\* EventRegistry.register(eventType, handler)
Register(t, h) ==
    /\ SumLen(handlers, RegistryTypes) < MaxHandlers
    /\ handlers' = [handlers EXCEPT ![t] = Append(@, h)]
    /\ UNCHANGED <<dispatches>>
    /\ UNCHANGED pubVars
    /\ UNCHANGED conVars
    /\ UNCHANGED rtVars
    /\ UNCHANGED cmVars
    /\ UNCHANGED mgrVars
    /\ UNCHANGED rlVars

\* A lookup that returns the handlers of every type
HandlersFor_anyType(t) ==
    handlers["ORDER_CREATED"] \o handlers["USER_CREATED"]

\* `this.handlers.get(event.type) || []': the list registered for the
\* type, empty when the type has no entry
HandlersFor(t) == handlers[t]

\* EventRegistry.dispatch(event), up to its await: the handlers of
\* event.type (none when the type has no entry) are mapped, in order, to the
\* async arrow, which calls handler.handle(event) at once.
Dispatch(t) ==
    /\ Len(dispatches) < MaxDispatch
    /\ dispatches' = Append(dispatches,
          [type |-> t,
           hs |-> HandlersFor(t),
           calls |-> [i \in DOMAIN HandlersFor(t) |-> 1],
           run |-> [i \in DOMAIN HandlersFor(t) |-> "pending"],
           wrap |-> [i \in DOMAIN HandlersFor(t) |->
                       HandlerWrapper("pending")],
           result |-> "pending"])
    /\ UNCHANGED <<handlers>>
    /\ UNCHANGED pubVars
    /\ UNCHANGED conVars
    /\ UNCHANGED rtVars
    /\ UNCHANGED cmVars
    /\ UNCHANGED mgrVars
    /\ UNCHANGED rlVars

\* The promise of handler.handle(event) settles: the handler succeeded
\* (outcome "fulfilled") or failed (outcome "rejected").
HandlerSettle(d, i, outcome) ==
    /\ d \in DOMAIN dispatches
    /\ i \in DOMAIN dispatches[d].run
    /\ dispatches[d].run[i] = "pending"
    /\ dispatches' = [dispatches EXCEPT
          ![d].run[i] = outcome,
          ![d].wrap[i] = HandlerWrapper(outcome)]
    /\ UNCHANGED <<handlers>>
    /\ UNCHANGED pubVars
    /\ UNCHANGED conVars
    /\ UNCHANGED rtVars
    /\ UNCHANGED cmVars
    /\ UNCHANGED mgrVars
    /\ UNCHANGED rlVars

\* `await Promise.all(...)' of dispatch settles and dispatch with it.
DispatchSettle(d) ==
    /\ d \in DOMAIN dispatches
    /\ dispatches[d].result = "pending"
    /\ PromiseAll(dispatches[d].wrap) # "pending"
    /\ dispatches' = [dispatches EXCEPT
          ![d].result = PromiseAll(dispatches[d].wrap)]
    /\ UNCHANGED <<handlers>>
    /\ UNCHANGED pubVars
    /\ UNCHANGED conVars
    /\ UNCHANGED rtVars
    /\ UNCHANGED cmVars
    /\ UNCHANGED mgrVars
    /\ UNCHANGED rlVars

(***************************************************************************)
(* JavaScript values and their JSON text.  A value is <<"str", s>>,        *)
(* <<"num", n>>, <<"date", ms>> or <<"obj", record of values>>; a JSON     *)
(* text is <<"jstr", s>>, <<"jnum", n>> or <<"jobj", record of texts>>.    *)
(***************************************************************************)
Str(s) == <<"str", s>>
Num(n) == <<"num", n>>
DateOf(ms) == <<"date", ms>>
Obj(r) == <<"obj", r>>

\* Date.prototype.toISOString(), by way of Date.prototype.toJSON()
ToISOString(ms) == "iso:" \o ToString(ms)

\* A JSON.stringify that writes numbers as strings
RECURSIVE JsonStringify_numAsStr(_)
JsonStringify_numAsStr(v) ==
    CASE v[1] = "str" -> <<"jstr", v[2]>>
      [] v[1] = "num" -> <<"jstr", ToString(v[2])>>
      [] v[1] = "date" -> <<"jstr", ToISOString(v[2])>>
      [] v[1] = "obj" ->
            <<"jobj", [f \in DOMAIN v[2] |-> JsonStringify_numAsStr(v[2][f])]>>

\* JSON.stringify(v): a Date is written as the string of its toJSON()
RECURSIVE JsonStringify(_)
JsonStringify(v) ==
    CASE v[1] = "str" -> <<"jstr", v[2]>>
      [] v[1] = "num" -> <<"jnum", v[2]>>
      [] v[1] = "date" -> <<"jstr", ToISOString(v[2])>>
      [] v[1] = "obj" ->
            <<"jobj", [f \in DOMAIN v[2] |-> JsonStringify(v[2][f])]>>

\* JSON.parse(text): strings, numbers and objects; JSON has no dates
RECURSIVE JsonParse(_)
JsonParse(j) ==
    CASE j[1] = "jstr" -> <<"str", j[2]>>
      [] j[1] = "jnum" -> <<"num", j[2]>>
      [] j[1] = "jobj" ->
            <<"obj", [f \in DOMAIN j[2] |-> JsonParse(j[2][f])]>>

\* An event is the record of its fields; JSON.stringify(event)
StringifyEvent(e) == JsonStringify(Obj(e))
\* JSON.parse(message) as BaseEvent
ParseEvent(text) == JsonParse(text)[2]

(***************************************************************************)
(* EventBus: publishing                                                    *)
(***************************************************************************)
Topics == {"order-events", "user-events", "dead-letter-events"}
CallerTopics == {"order-events", "user-events"}
Channels == {"order:created", "user:created"}
DeadLetterTopic == "dead-letter-events"

\* The values Math.random().toString(36).substr(2, 9) takes in the model
RandomSuffixes == {"k3x9q", "7fz0a"}

\* EventBus.generateEventId(): `${Date.now()}-${random suffix}`
GenerateEventId(t, r) == Str(ToString(t) \o "-" \o r)

\* The events a caller hands to publishEvent / publishRealTimeEvent
\* Partial<Order> and the like: { totalAmount: 42 }, { createdAt: Date }
AmountPayload == Obj([totalAmount |-> Num(42)])
DatePayload == Obj([createdAt |-> DateOf(0)])
PayloadValues == {AmountPayload, DatePayload}
CallerEvent(id, ts, data) ==
    [id |-> Str(id), type |-> Str("ORDER_SHIPPED"), timestamp |-> ts,
     source |-> Str("order-service"), version |-> Str("1.0"),
     orderId |-> Str("ord-1"), orderData |-> data]
CallerEvents ==
    { CallerEvent("e1", DateOf(0), AmountPayload),
      CallerEvent("e2", Num(1), DatePayload),
      CallerEvent("e3", Num(2), AmountPayload) }

\* The message publishEvent hands to producer.send for the event
KafkaMessage_keyType(event) ==
    [key |-> event.type,
     value |-> StringifyEvent(event),
     headers |-> [eventType |-> event.type, source |-> event.source,
                  version |-> event.version]]

KafkaMessage(event) ==
    [key |-> event.id,
     value |-> StringifyEvent(event),
     headers |-> [eventType |-> event.type, source |-> event.source,
                  version |-> event.version]]

\* The message publishRealTimeEvent hands to redisClient.publish
RedisMessage(event) == StringifyEvent(event)

\* publishEvent / publishRealTimeEvent: try { await write } catch (error)
\* { log; throw error } -- the call settles as its write does.
PublishOutcome_swallow(phys) ==
    IF phys = "inflight" THEN "pending" ELSE "fulfilled"

PublishOutcome(phys) ==
    CASE phys = "inflight" -> "pending"
      [] phys = "ok" -> AwaitRethrow("fulfilled")
      [] phys = "failed" -> AwaitRethrow("rejected")

\* The state of the write a publishEvent call begins: a TypeError when
\* EventBus.kafkaProducer was never set, refused by the client when the
\* producer it holds is not connected, in flight otherwise.
KafkaSendBegin ==
    IF kafkaProducer = "undefined" \/ producer # "connected"
    THEN "failed" ELSE "inflight"

\* The client RedisConnection.getInstance() returns is in subscriber mode
\* once a subscribe(...) on it succeeded; it then refuses every command
\* that is not a subscription command
SubscriberMode == subscribed # {}

\* The state of the write a publishRealTimeEvent call begins: a TypeError
\* when EventBus.redisClient was never set, refused by the client when it
\* is in subscriber mode, in flight otherwise.
RedisPublishBegin ==
    IF redisClient = "undefined" \/ SubscriberMode
    THEN "failed" ELSE "inflight"

\* A call of publishEvent(topic, event) up to its await
NewKafkaWrite(topic, event) ==
    [kind |-> "kafka", dest |-> topic, event |-> event,
     message |-> KafkaMessage(event),
     phys |-> KafkaSendBegin, attempts |-> 1,
     promise |-> PublishOutcome(KafkaSendBegin)]

\* A call of publishRealTimeEvent(channel, event) up to its await
NewRedisWrite(channel, event) ==
    [kind |-> "redis", dest |-> channel, event |-> event,
     message |-> RedisMessage(event),
     phys |-> RedisPublishBegin, attempts |-> 1,
     promise |-> PublishOutcome(RedisPublishBegin)]

\* The event publishOrderCreated builds
OrderCreatedEvent_swapped(id, t, orderId, userId, orderData) ==
    [id |-> id, type |-> Str("ORDER_CREATED"), timestamp |-> DateOf(t),
     source |-> Str("order-service"), version |-> Str("1.0"),
     orderId |-> userId, userId |-> orderId, orderData |-> orderData]

OrderCreatedEvent(id, t, orderId, userId, orderData) ==
    [id |-> id, type |-> Str("ORDER_CREATED"), timestamp |-> DateOf(t),
     source |-> Str("order-service"), version |-> Str("1.0"),
     orderId |-> orderId, userId |-> userId, orderData |-> orderData]

\* The event publishUserCreated builds
UserCreatedEvent(id, t, userId, userData) ==
    [id |-> id, type |-> Str("USER_CREATED"), timestamp |-> DateOf(t),
     source |-> Str("user-service"), version |-> Str("1.0"),
     userId |-> userId, userData |-> userData]

\* The writes a domain publish helper begins before its await:
\* Promise.all([this.publishEvent(topic, event),
\*              this.publishRealTimeEvent(channel, event)])
HelperWrites_broadcastFirst(topic, channel, event) ==
    <<NewRedisWrite(channel, event)>>

HelperWrites(topic, channel, event) ==
    <<NewKafkaWrite(topic, event), NewRedisWrite(channel, event)>>

\* The writes of helper call h, and the one of them on a given channel kind
HelperParts(h) == h.first .. (h.first + h.n - 1)
HelperPart(h, kind) ==
    IF \E w \in HelperParts(h) : writes[w].kind = kind
    THEN CHOOSE w \in HelperParts(h) : writes[w].kind = kind
    ELSE 0

\* Promise.allSettled in the place of Promise.all: never rejected
HelperPromise_allSettled(h) ==
    IF \A w \in h.first .. (h.first + h.n - 1) : writes[w].promise # "pending"
    THEN "fulfilled" ELSE "pending"

\* The state of the Promise.all a helper awaits
HelperPromise(h) ==
    PromiseAll([i \in 1..h.n |-> writes[h.first + i - 1].promise])

\* The record handleDeadLetterEvent builds from event and error
DeadLetterEvent(event, error, id, t) ==
    [f \in DOMAIN event \cup {"originalEventId", "error"} |->
        CASE f = "id" -> id
          [] f = "type" -> Str(event.type[2] \o "_DEAD_LETTER")
          [] f = "timestamp" -> DateOf(t)
          [] f = "originalEventId" -> event.id
          [] f = "error" -> Obj([message |-> Str(error),
                                 stack |-> Str("stack of " \o error)])
          [] OTHER -> event[f]]

\* A getProducer() that never finds a producer cached
ProducerCached_never == FALSE

\* `if (!this.producer)' of KafkaConnection.getProducer(), negated
ProducerCached == producer # "none"

\* KafkaConnection after getProducer() made a producer, cached it and
\* called its connect()
ProducerCreated ==
    [kafka EXCEPT !.producersCreated = @ + 1,
                  !.producerInst = kafka.producersCreated + 1,
                  !.producerConnects = @ + 1]

\* The clock advances
Tick ==
    /\ now < MaxClock
    /\ now' = now + 1
    /\ UNCHANGED <<producer, kafkaProducer, redisClient, initCall, topics,
                   channels, writes, helpers, dlcalls>>
    /\ UNCHANGED regVars
    /\ UNCHANGED conVars
    /\ UNCHANGED rtVars
    /\ UNCHANGED cmVars
    /\ UNCHANGED mgrVars
    /\ UNCHANGED rlVars

\* EventBus.initialize() when KafkaConnection has no producer yet:
\* getProducer() creates and caches the producer, then awaits its connect.
InitializeStart ==
    /\ ~ProducerCached
    /\ producer' = "connecting"
    /\ kafka' = ProducerCreated
    /\ initCall' = "pending"
    /\ UNCHANGED <<now, kafkaProducer, redisClient, topics, channels,
                   writes, helpers, dlcalls>>
    /\ UNCHANGED <<db, redis, cmCalls, health>>
    /\ UNCHANGED regVars
    /\ UNCHANGED conVars
    /\ UNCHANGED rtVars
    /\ UNCHANGED mgrVars
    /\ UNCHANGED rlVars

\* producer.connect() settles, and with it getProducer() and initialize():
\* on success initialize() stores the producer and the redis client, on
\* failure it rethrows and the unconnected producer stays cached.
ProducerConnectSettle(ok) ==
    /\ producer = "connecting"
    /\ initCall = "pending"
    /\ producer' = IF ok THEN "connected" ELSE "unconnected"
    /\ initCall' = IF ok THEN "fulfilled" ELSE "rejected"
    /\ kafkaProducer' = IF ok THEN "set" ELSE kafkaProducer
    /\ redisClient' = IF ok THEN "set" ELSE redisClient
    /\ UNCHANGED <<now, topics, channels, writes, helpers, dlcalls>>
    /\ UNCHANGED regVars
    /\ UNCHANGED conVars
    /\ UNCHANGED rtVars
    /\ UNCHANGED cmVars
    /\ UNCHANGED mgrVars
    /\ UNCHANGED rlVars

\* EventBus.initialize() when a producer is cached: getProducer() returns
\* it as it is, connected or not.
InitializeCached ==
    /\ ProducerCached
    /\ kafkaProducer' = "set"
    /\ redisClient' = "set"
    /\ UNCHANGED <<now, producer, initCall, topics, channels, writes,
                   helpers, dlcalls>>
    /\ UNCHANGED regVars
    /\ UNCHANGED conVars
    /\ UNCHANGED rtVars
    /\ UNCHANGED cmVars
    /\ UNCHANGED mgrVars
    /\ UNCHANGED rlVars

\* EventBus.publishEvent(topic, event) called by a caller of the bus
PublishEvent(topic, event) ==
    /\ Len(writes) < MaxWrites
    /\ writes' = Append(writes, NewKafkaWrite(topic, event))
    /\ UNCHANGED <<now, producer, kafkaProducer, redisClient, initCall,
                   topics, channels, helpers, dlcalls>>
    /\ UNCHANGED regVars
    /\ UNCHANGED conVars
    /\ UNCHANGED rtVars
    /\ UNCHANGED cmVars
    /\ UNCHANGED mgrVars
    /\ UNCHANGED rlVars

\* EventBus.publishRealTimeEvent(channel, event) called by a caller
PublishRealTimeEvent(channel, event) ==
    /\ Len(writes) < MaxWrites
    /\ writes' = Append(writes, NewRedisWrite(channel, event))
    /\ UNCHANGED <<now, producer, kafkaProducer, redisClient, initCall,
                   topics, channels, helpers, dlcalls>>
    /\ UNCHANGED regVars
    /\ UNCHANGED conVars
    /\ UNCHANGED rtVars
    /\ UNCHANGED cmVars
    /\ UNCHANGED mgrVars
    /\ UNCHANGED rlVars

\* A producer made without `idempotent: true'
ProducerIdempotent_off == FALSE

\* `idempotent: true' of the producer getProducer() makes; with
\* `maxInFlightRequests: 1' each send is one batch with one sequence number
ProducerIdempotent == TRUE

\* The topic after the broker received the batch of write w: appended,
\* unless the producer is idempotent and the broker already holds the
\* batch with that sequence number (a retry of a batch whose
\* acknowledgement was lost), which it acknowledges without appending
BrokerAppend(log, w) ==
    IF ProducerIdempotent /\ \E i \in DOMAIN log : log[i].by = w
    THEN log
    ELSE Append(log, [key |-> writes[w].message.key,
                      value |-> writes[w].message.value,
                      headers |-> writes[w].message.headers,
                      by |-> w])

\* The request of write w fails with a retriable error and the producer
\* sends the batch again: the broker never got it (received = FALSE) or
\* appended it and the acknowledgement was lost (received = TRUE)
KafkaSendRetry(w, received) ==
    /\ w \in DOMAIN writes
    /\ writes[w].kind = "kafka"
    /\ writes[w].phys = "inflight"
    /\ writes[w].attempts < MaxAttempts
    /\ writes' = [writes EXCEPT ![w].attempts = @ + 1]
    /\ topics' = IF received
                 THEN [topics EXCEPT ![writes[w].dest] = BrokerAppend(@, w)]
                 ELSE topics
    /\ UNCHANGED <<now, producer, kafkaProducer, redisClient, initCall,
                   channels, helpers, dlcalls>>
    /\ UNCHANGED regVars
    /\ UNCHANGED conVars
    /\ UNCHANGED rtVars
    /\ UNCHANGED cmVars
    /\ UNCHANGED mgrVars
    /\ UNCHANGED rlVars

\* producer.send(...) of write w settles: on success the broker has
\* appended the message to the topic; publishEvent settles accordingly.
KafkaSendSettle(w, ok) ==
    /\ w \in DOMAIN writes
    /\ writes[w].kind = "kafka"
    /\ writes[w].phys = "inflight"
    /\ LET phys == IF ok THEN "ok" ELSE "failed" IN
       writes' = [writes EXCEPT ![w].phys = phys,
                                ![w].promise = PublishOutcome(phys)]
    /\ topics' = IF ok
                 THEN [topics EXCEPT ![writes[w].dest] = BrokerAppend(@, w)]
                 ELSE topics
    /\ UNCHANGED <<now, producer, kafkaProducer, redisClient, initCall,
                   channels, helpers, dlcalls>>
    /\ UNCHANGED regVars
    /\ UNCHANGED conVars
    /\ UNCHANGED rtVars
    /\ UNCHANGED cmVars
    /\ UNCHANGED mgrVars
    /\ UNCHANGED rlVars

\* redisClient.publish(...) of write w settles: on success the message was
\* broadcast on the channel; publishRealTimeEvent settles accordingly.
RedisPublishSettle(w, ok) ==
    /\ w \in DOMAIN writes
    /\ writes[w].kind = "redis"
    /\ writes[w].phys = "inflight"
    /\ LET phys == IF ok THEN "ok" ELSE "failed" IN
       writes' = [writes EXCEPT ![w].phys = phys,
                                ![w].promise = PublishOutcome(phys)]
    /\ channels' = IF ok
                   THEN [channels EXCEPT ![writes[w].dest] =
                            Append(@, [message |-> writes[w].message,
                                       by |-> w])]
                   ELSE channels
    /\ UNCHANGED <<now, producer, kafkaProducer, redisClient, initCall,
                   topics, helpers, dlcalls>>
    /\ UNCHANGED regVars
    /\ UNCHANGED conVars
    /\ UNCHANGED rtVars
    /\ UNCHANGED cmVars
    /\ UNCHANGED mgrVars
    /\ UNCHANGED rlVars

\* A domain publish helper, up to its await: the event is built once and
\* both publish calls are made.
HelperStart(name, args, event, topic, channel) ==
    LET ws == HelperWrites(topic, channel, event) IN
    /\ Len(helpers) < MaxHelpers
    /\ writes' = writes \o ws
    /\ helpers' = Append(helpers,
          [name |-> name, args |-> args, event |-> event, topic |-> topic,
           channel |-> channel, first |-> Len(writes) + 1, n |-> Len(ws),
           result |-> "pending"])
    /\ UNCHANGED <<now, producer, kafkaProducer, redisClient, initCall,
                   topics, channels, dlcalls>>
    /\ UNCHANGED regVars
    /\ UNCHANGED conVars
    /\ UNCHANGED rtVars
    /\ UNCHANGED cmVars
    /\ UNCHANGED mgrVars
    /\ UNCHANGED rlVars

\* EventBus.publishOrderCreated(orderId, userId, orderData)
PublishOrderCreated(orderId, userId, orderData) ==
    \E r \in RandomSuffixes :
        HelperStart("publishOrderCreated",
            [orderId |-> orderId, userId |-> userId],
            OrderCreatedEvent(GenerateEventId(now, r), now,
                              orderId, userId, orderData),
            "order-events", "order:created")

\* EventBus.publishUserCreated(userId, userData)
PublishUserCreated(userId, userData) ==
    \E r \in RandomSuffixes :
        HelperStart("publishUserCreated", [userId |-> userId],
            UserCreatedEvent(GenerateEventId(now, r), now, userId, userData),
            "user-events", "user:created")

\* The Promise.all of helper call h settles and the caller observes it
HelperSettle(h) ==
    /\ h \in DOMAIN helpers
    /\ helpers[h].result = "pending"
    /\ HelperPromise(helpers[h]) # "pending"
    /\ helpers' = [helpers EXCEPT ![h].result = HelperPromise(helpers[h])]
    /\ UNCHANGED <<now, producer, kafkaProducer, redisClient, initCall,
                   topics, channels, writes, dlcalls>>
    /\ UNCHANGED regVars
    /\ UNCHANGED conVars
    /\ UNCHANGED rtVars
    /\ UNCHANGED cmVars
    /\ UNCHANGED mgrVars
    /\ UNCHANGED rlVars

\* EventBus.handleDeadLetterEvent(event, error), up to its await
HandleDeadLetterEvent(event, error) ==
    \E r \in RandomSuffixes :
      LET dle == DeadLetterEvent(event, error, GenerateEventId(now, r), now)
      IN
      /\ Len(dlcalls) < MaxDeadLetters
      /\ writes' = Append(writes, NewKafkaWrite(DeadLetterTopic, dle))
      /\ dlcalls' = Append(dlcalls,
            [event |-> event, error |-> error, record |-> dle,
             w |-> Len(writes) + 1, result |-> "pending"])
      /\ UNCHANGED <<now, producer, kafkaProducer, redisClient, initCall,
                     topics, channels, helpers>>
      /\ UNCHANGED regVars
      /\ UNCHANGED conVars
      /\ UNCHANGED rtVars
      /\ UNCHANGED cmVars
      /\ UNCHANGED mgrVars
      /\ UNCHANGED rlVars

\* A handleDeadLetterEvent that catches the failure of its publish
DeadLetterAwait_swallow(p) ==
    IF p = "pending" THEN "pending" ELSE "fulfilled"

\* `await this.publishEvent(...)' as the last statement of
\* handleDeadLetterEvent, outside any try: the call settles as the publish
DeadLetterAwait(p) == p

\* `await this.publishEvent(...)' of handleDeadLetterEvent settles
DeadLetterSettle(c) ==
    /\ c \in DOMAIN dlcalls
    /\ dlcalls[c].result = "pending"
    /\ writes[dlcalls[c].w].promise # "pending"
    /\ dlcalls' = [dlcalls EXCEPT
          ![c].result = DeadLetterAwait(writes[dlcalls[c].w].promise)]
    /\ UNCHANGED <<now, producer, kafkaProducer, redisClient, initCall,
                   topics, channels, writes, helpers>>
    /\ UNCHANGED regVars
    /\ UNCHANGED conVars
    /\ UNCHANGED rtVars
    /\ UNCHANGED cmVars
    /\ UNCHANGED mgrVars
    /\ UNCHANGED rlVars

\* The events the process holds: those given to or built by a publish call
KnownEvents == { writes[w].event : w \in DOMAIN writes }
ErrorMessages == {"boom"}

\* The writes there can be: those of the callers, two per helper call and
\* one per handleDeadLetterEvent call
WriteIds == 1..(MaxWrites + 2 * MaxHelpers + MaxDeadLetters)

\* Callers publishing on the two channels of an EventBus, initialized or not
NextPublish ==
    \/ InitializeStart
    \/ \E ok \in BOOLEAN : ProducerConnectSettle(ok)
    \/ InitializeCached
    \/ \E t \in CallerTopics, e \in CallerEvents : PublishEvent(t, e)
    \/ \E c \in Channels, e \in CallerEvents : PublishRealTimeEvent(c, e)
    \/ \E w \in WriteIds, ok \in BOOLEAN : KafkaSendSettle(w, ok)
    \/ \E w \in WriteIds, ok \in BOOLEAN : RedisPublishSettle(w, ok)

\* Callers of the domain publish helpers
NextHelper ==
    \/ Tick
    \/ \E d \in PayloadValues :
          PublishOrderCreated(Str("ord-1"), Str("usr-1"), d)
    \/ \E d \in PayloadValues : PublishUserCreated(Str("usr-1"), d)
    \/ \E w \in WriteIds, ok \in BOOLEAN : KafkaSendSettle(w, ok)
    \/ \E w \in WriteIds, ok \in BOOLEAN : RedisPublishSettle(w, ok)
    \/ \E h \in 1..MaxHelpers : HelperSettle(h)

\* The events publishOrderCreated builds, in this process or another
OrderCreatedEvents ==
    { OrderCreatedEvent(GenerateEventId(t, r), t, Str("ord-1"), Str("usr-1"),
                        AmountPayload) :
        t \in 0..MaxClock, r \in RandomSuffixes }

\* Events built by publishOrderCreated failing to be processed and being
\* dead-lettered
NextDeadLetter ==
    \/ Tick
    \/ \E e \in OrderCreatedEvents \cup KnownEvents, m \in ErrorMessages :
          HandleDeadLetterEvent(e, m)
    \/ \E w \in WriteIds, ok \in BOOLEAN : KafkaSendSettle(w, ok)
    \/ \E c \in 1..MaxDeadLetters : DeadLetterSettle(c)

\* The events the helpers of this process have built
HelperEvents == { helpers[h].event : h \in DOMAIN helpers }

\* One process building events with the helpers and dead-lettering the
\* events it built
NextEventIds ==
    \/ Tick
    \/ \E d \in PayloadValues :
          PublishOrderCreated(Str("ord-1"), Str("usr-1"), d)
    \/ \E d \in PayloadValues : PublishUserCreated(Str("usr-1"), d)
    \/ \E e \in HelperEvents, m \in ErrorMessages :
          HandleDeadLetterEvent(e, m)
    \/ \E w \in WriteIds, ok \in BOOLEAN : KafkaSendSettle(w, ok)
    \/ \E w \in WriteIds, ok \in BOOLEAN : RedisPublishSettle(w, ok)
    \/ \E h \in 1..MaxHelpers : HelperSettle(h)
    \/ \E c \in 1..MaxDeadLetters : DeadLetterSettle(c)

(***************************************************************************)
(* EventBus: consuming and replaying                                       *)
(***************************************************************************)
ConsumerGroups == {"order-group"}
\* `replay-${Date.now()}'
ReplayGroup(t) == "replay-" \o ToString(t)
GroupIds == ConsumerGroups \cup { ReplayGroup(t) : t \in 0..MaxClock }

\* An entry of KafkaConnection.consumers; cached = FALSE: no entry
NoConsumer ==
    [cached |-> FALSE, inst |-> 0, running |-> FALSE, kind |-> "none",
     topics |-> {},
     from |-> DateOf(0), to |-> DateOf(0),
     start |-> [t \in Topics |-> 0], pos |-> [t \in Topics |-> 0],
     busy |-> FALSE]

\* The offsets a consumer of a group without committed offsets starts from:
\* consumer.subscribe({ topics }) passes no fromBeginning, which the client
\* takes as false, the end of each topic.
StartOffsets == [t \in Topics |-> Len(topics[t])]

\* ToNumber of a value, <<"nan">> when it is not a number: the time value of
\* a Date, the number itself, NaN for the strings of the model
JsToNumber(v) ==
    CASE v[1] = "date" -> <<"num", v[2]>>
      [] v[1] = "num" -> <<"num", v[2]>>
      [] OTHER -> <<"nan">>

\* a >= b and a <= b where b is a Date: both sides are converted to
\* numbers, and a comparison with NaN is false
JsGreaterEq(a, b) ==
    /\ JsToNumber(a)[1] = "num" /\ JsToNumber(b)[1] = "num"
    /\ JsToNumber(a)[2] >= JsToNumber(b)[2]
JsLessEq(a, b) ==
    /\ JsToNumber(a)[1] = "num" /\ JsToNumber(b)[1] = "num"
    /\ JsToNumber(a)[2] <= JsToNumber(b)[2]

\* The test of replayEvents on the parsed event
InReplayWindow(event, from, to) ==
    JsGreaterEq(event.timestamp, from) /\ JsLessEq(event.timestamp, to)

\* The record values other producers write to a topic: bytes that are no
\* JSON text, and no value at all (a tombstone)
RawValue == <<"raw", [text |-> "not json"]>>
NullValue == <<"null", [text |-> ""]>>
ForeignValues == {RawValue, NullValue}

\* `if (message.value)': the record has a value
HasValue(rec) == rec.value[1] # "null"

\* Whether JSON.parse accepts the value rather than throwing a SyntaxError
IsJsonText(v) == v[1] \in {"jstr", "jnum", "jobj"}

\* JSON.parse(message.value.toString()) as BaseEvent
ConsumerDecode(rec) == ParseEvent(rec.value)

\* An eachMessage without its try/catch: it settles as its body does
EachMessage_rethrow(body) == body

\* eachMessage: try { parse; await handler } catch (error) { logger.error }
\* -- given how its body ended, how the promise it returns settles
EachMessage(body) ==
    IF body = "pending" THEN "pending" ELSE "fulfilled"

\* A consumer that starts eachMessage for the next record without waiting
EachMessageDone_noAwait(c) == TRUE

\* The consumer calls eachMessage for one record at a time and awaits the
\* promise it returns, which is settled only after `await handler(...)'
EachMessageDone(c) == ~c.busy

\* The offset the consumer goes on from after eachMessage settled for the
\* record at pos + 1: past the record when it resolved, the same record again
\* (the client retries) when it rejected
NextPosition(pos, settled) ==
    IF settled = "fulfilled" THEN pos + 1 ELSE pos

\* Whether eachMessage hands the parsed event to the handler
HandsToHandler(c, event) ==
    c.kind = "replay" => InReplayWindow(event, c.from, c.to)

\* getConsumer(groupId), consumer.subscribe and consumer.run for a call of
\* setupEventConsumer or replayEvents.  outcome is that of the network
\* steps: "ok", "connectFails" (getConsumer throws, nothing is cached) or
\* "subscribeFails".  The client refuses to subscribe a running consumer.
JoinGroup(op, g, ts, kind, from, to, outcome) ==
    LET c == consumers[g]
        inst == IF c.cached THEN c.inst ELSE Len(physConsumers) + 1
        result ==
            IF ~c.cached /\ outcome = "connectFails" THEN "rejected"
            ELSE IF c.running \/ outcome = "subscribeFails" THEN "rejected"
            ELSE "fulfilled"
    IN
    /\ Len(setups) < MaxSetups
    /\ setups' = Append(setups, [op |-> op, group |-> g, topics |-> ts,
                                 inst |-> inst,
                                 result |-> AwaitRethrow(result)])
    /\ physConsumers' =
          IF c.cached THEN physConsumers
          ELSE Append(physConsumers,
                  [group |-> g,
                   state |-> IF outcome = "connectFails" THEN "failed"
                             ELSE "connected"])
    /\ consumers' =
          IF ~c.cached /\ outcome = "connectFails" THEN consumers
          ELSE IF c.running THEN consumers
          ELSE IF outcome = "subscribeFails"
               THEN [consumers EXCEPT ![g].cached = TRUE,
                                      ![g].inst = inst]
          ELSE [consumers EXCEPT ![g] =
                   [cached |-> TRUE, inst |-> inst, running |-> TRUE,
                    kind |-> kind,
                    topics |-> ts, from |-> from, to |-> to,
                    start |-> StartOffsets, pos |-> StartOffsets,
                    busy |-> FALSE]]
    /\ UNCHANGED <<invocations, getCalls>>
    /\ UNCHANGED regVars
    /\ UNCHANGED pubVars
    /\ UNCHANGED rtVars
    /\ UNCHANGED cmVars
    /\ UNCHANGED mgrVars
    /\ UNCHANGED rlVars

\* EventBus.setupEventConsumer(topics, groupId, handler)
SetupEventConsumer(ts, g, outcome) ==
    JoinGroup("setupEventConsumer", g, ts, "consume",
              DateOf(0), DateOf(0), outcome)

\* EventBus.replayEvents(topic, fromTimestamp, toTimestamp, handler)
ReplayEvents(t, from, to, outcome) ==
    JoinGroup("replayEvents", ReplayGroup(now), {t}, "replay",
              from, to, outcome)

\* eachMessage for the next record of topic t: the value is parsed and,
\* unless replayEvents filters it out, handed to the handler, which
\* eachMessage awaits; a record filtered out is done with at once.
ConsumerDeliver(g, t) ==
    LET c == consumers[g] IN
    /\ c.running /\ EachMessageDone(c)
    /\ t \in c.topics
    /\ c.pos[t] < Len(topics[t])
    /\ LET rec == topics[t][c.pos[t] + 1] IN
       IF ~HasValue(rec)
       THEN /\ invocations' = invocations
            /\ consumers' = [consumers EXCEPT ![g].pos[t] =
                                 NextPosition(@, EachMessage("fulfilled"))]
       ELSE IF ~IsJsonText(rec.value)
       THEN /\ invocations' = invocations
            /\ consumers' = [consumers EXCEPT ![g].pos[t] =
                                 NextPosition(@, EachMessage("rejected"))]
       ELSE IF HandsToHandler(c, ConsumerDecode(rec))
       THEN /\ invocations' = Append(invocations,
                  [group |-> g, topic |-> t, offset |-> c.pos[t] + 1,
                   event |-> ConsumerDecode(rec), by |-> rec.by,
                   outcome |-> "pending"])
            /\ consumers' = [consumers EXCEPT ![g].busy = TRUE]
       ELSE /\ invocations' = invocations
            /\ consumers' = [consumers EXCEPT ![g].pos[t] =
                                 NextPosition(@, EachMessage("fulfilled"))]
    /\ UNCHANGED <<setups, physConsumers, getCalls>>
    /\ UNCHANGED regVars
    /\ UNCHANGED pubVars
    /\ UNCHANGED rtVars
    /\ UNCHANGED cmVars
    /\ UNCHANGED mgrVars
    /\ UNCHANGED rlVars

\* Another producer appends a record to topic t
ForeignProduce(t, v) ==
    /\ Cardinality({ i \in DOMAIN topics[t] : topics[t][i].by = 0 })
          < MaxForeign
    /\ topics' = [topics EXCEPT ![t] =
          Append(@, [key |-> Str("foreign"), value |-> v,
                     headers |-> [eventType |-> Str("?"), source |-> Str("?"),
                                  version |-> Str("?")],
                     by |-> 0])]
    /\ UNCHANGED <<now, producer, kafkaProducer, redisClient, initCall,
                   channels, writes, helpers, dlcalls>>
    /\ UNCHANGED regVars
    /\ UNCHANGED conVars
    /\ UNCHANGED rtVars
    /\ UNCHANGED cmVars
    /\ UNCHANGED mgrVars
    /\ UNCHANGED rlVars

\* The handler's promise of invocation i settles; eachMessage logs a
\* failure and returns, and the consumer moves past the record.
ConsumerHandlerSettle(i, outcome) ==
    /\ i \in DOMAIN invocations
    /\ invocations[i].outcome = "pending"
    /\ invocations' = [invocations EXCEPT ![i].outcome = outcome]
    /\ consumers' = [consumers EXCEPT
          ![invocations[i].group].busy = FALSE,
          ![invocations[i].group].pos[invocations[i].topic] =
              NextPosition(@, EachMessage(outcome))]
    /\ UNCHANGED <<setups, physConsumers, getCalls>>
    /\ UNCHANGED regVars
    /\ UNCHANGED pubVars
    /\ UNCHANGED rtVars
    /\ UNCHANGED cmVars
    /\ UNCHANGED mgrVars
    /\ UNCHANGED rlVars

\* The handler invocations there can be: one per consumer and record
MaxInvocations == MaxSetups * MaxWrites
JoinOutcomes == {"ok", "connectFails", "subscribeFails"}
ReplayFrom == DateOf(0)
ReplayTo == DateOf(1)

\* The publishEvent calls made while consumers run: three events to the
\* topic the consumers read and one to another topic
ConsumedPublishes ==
    { <<"order-events", e>> : e \in CallerEvents }
        \cup { <<"user-events", CallerEvent("e1", DateOf(0), AmountPayload)>> }

\* Callers publishing to a topic that a consumer group reads
NextConsume ==
    \/ \E p \in ConsumedPublishes : PublishEvent(p[1], p[2])
    \/ \E w \in WriteIds, ok \in BOOLEAN : KafkaSendSettle(w, ok)
    \/ \E g \in ConsumerGroups, o \in JoinOutcomes :
          SetupEventConsumer({"order-events"}, g, o)
    \/ \E g \in GroupIds, t \in Topics : ConsumerDeliver(g, t)
    \/ \E i \in 1..MaxInvocations, o \in {"fulfilled", "rejected"} :
          ConsumerHandlerSettle(i, o)

\* Callers publishing to a topic that a consumer group reads, over a
\* connection on which requests fail and are retried by the producer
NextRetry ==
    \/ PublishEvent("order-events", CallerEvent("e1", DateOf(0), AmountPayload))
    \/ \E w \in WriteIds, r \in BOOLEAN : KafkaSendRetry(w, r)
    \/ \E w \in WriteIds, ok \in BOOLEAN : KafkaSendSettle(w, ok)
    \/ \E g \in ConsumerGroups :
          SetupEventConsumer({"order-events"}, g, "ok")
    \/ \E g \in GroupIds, t \in Topics : ConsumerDeliver(g, t)
    \/ \E i \in 1..MaxInvocations, o \in {"fulfilled", "rejected"} :
          ConsumerHandlerSettle(i, o)

\* A consumer group reading a topic that also holds records it cannot
\* decode
NextConsumeFaults ==
    \/ PublishEvent("order-events", CallerEvent("e3", Num(2), AmountPayload))
    \/ \E w \in WriteIds, ok \in BOOLEAN : KafkaSendSettle(w, ok)
    \/ \E v \in ForeignValues : ForeignProduce("order-events", v)
    \/ \E g \in ConsumerGroups, o \in JoinOutcomes :
          SetupEventConsumer({"order-events"}, g, o)
    \/ \E g \in GroupIds, t \in Topics : ConsumerDeliver(g, t)
    \/ \E i \in 1..MaxInvocations, o \in {"fulfilled", "rejected"} :
          ConsumerHandlerSettle(i, o)

\* Callers publishing to a topic that replays read
NextReplay ==
    \/ Tick
    \/ \E p \in ConsumedPublishes : PublishEvent(p[1], p[2])
    \/ \E w \in WriteIds, ok \in BOOLEAN : KafkaSendSettle(w, ok)
    \/ \E o \in JoinOutcomes :
          ReplayEvents("order-events", ReplayFrom, ReplayTo, o)
    \/ \E g \in GroupIds, t \in Topics : ConsumerDeliver(g, t)
    \/ \E i \in 1..MaxInvocations, o \in {"fulfilled", "rejected"} :
          ConsumerHandlerSettle(i, o)

\* The events the consumers have handed to a handler
HandledEvents == { invocations[i].event : i \in DOMAIN invocations }

\* A consumer group reading a topic while dead-letter records are published
\* by whoever calls handleDeadLetterEvent
NextConsumeDeadLetter ==
    \/ \E p \in ConsumedPublishes : PublishEvent(p[1], p[2])
    \/ \E w \in WriteIds, ok \in BOOLEAN : KafkaSendSettle(w, ok)
    \/ \E g \in ConsumerGroups, o \in JoinOutcomes :
          SetupEventConsumer({"order-events"}, g, o)
    \/ \E g \in GroupIds, t \in Topics : ConsumerDeliver(g, t)
    \/ \E i \in 1..MaxInvocations, o \in {"fulfilled", "rejected"} :
          ConsumerHandlerSettle(i, o)
    \/ \E e \in HandledEvents, m \in ErrorMessages :
          HandleDeadLetterEvent(e, m)
    \/ \E c \in 1..MaxDeadLetters : DeadLetterSettle(c)

(***************************************************************************)
(* EventBus: real-time subscriptions                                       *)
(***************************************************************************)
RealTimeHandlers == {"RH1", "RH2"}

\* The messages other processes publish on the channels: an event as
\* publishRealTimeEvent writes it, and a text that is no JSON
InboundTexts ==
    { RedisMessage(CallerEvent("e3", Num(2), AmountPayload)), RawValue }

\* A 'message' listener without its try/catch: its promise settles as its
\* body does
RealTimeListener_nocatch(body) == body

\* The async 'message' listener: try { parse; await handler(channel, event) }
\* catch (error) { logger.error } -- how its promise settles given its body
RealTimeListener(body) ==
    IF body = "pending" THEN "pending" ELSE "fulfilled"

\* The emitter drops the promise a listener returns: one that rejects is an
\* unhandled rejection, which ends the process
AfterListener(p, settled) ==
    IF settled = "rejected" THEN "crashed" ELSE p

\* subscribeToRealTimeEvents(channels, handler), up to its await
SubscribeStartUpTo(n, chs, h) ==
    /\ proc = "running"
    /\ Len(rtCalls) < n
    /\ rtCalls' = Append(rtCalls, [channels |-> chs, handler |-> h,
                                   listener |-> 0, result |-> "pending"])
    /\ UNCHANGED <<subscribed, listeners, inbound, rtInvocations, proc>>
    /\ UNCHANGED regVars
    /\ UNCHANGED pubVars
    /\ UNCHANGED conVars
    /\ UNCHANGED cmVars
    /\ UNCHANGED mgrVars
    /\ UNCHANGED rlVars

SubscribeStart(chs, h) == SubscribeStartUpTo(MaxSubscribes, chs, h)

\* `await subscriber.subscribe(...channels)' of call s settles: on success
\* the client is subscribed to the channels and the call attaches its
\* 'message' listener, on failure the call rethrows.
SubscribeSettle(s, ok) ==
    /\ proc = "running"
    /\ s \in DOMAIN rtCalls
    /\ rtCalls[s].result = "pending"
    /\ IF ok
       THEN /\ subscribed' = subscribed \cup rtCalls[s].channels
            /\ listeners' = Append(listeners,
                  [handler |-> rtCalls[s].handler,
                   channels |-> rtCalls[s].channels,
                   since |-> Len(inbound)])
            /\ rtCalls' = [rtCalls EXCEPT
                  ![s].listener = Len(listeners) + 1,
                  ![s].result = AwaitRethrow("fulfilled")]
       ELSE /\ rtCalls' = [rtCalls EXCEPT
                  ![s].result = AwaitRethrow("rejected")]
            /\ UNCHANGED <<subscribed, listeners>>
    /\ UNCHANGED <<inbound, rtInvocations, proc>>
    /\ UNCHANGED regVars
    /\ UNCHANGED pubVars
    /\ UNCHANGED conVars
    /\ UNCHANGED cmVars
    /\ UNCHANGED mgrVars
    /\ UNCHANGED rlVars

\* The handler invocations the listeners start for inbound message k with
\* the given text: every attached listener runs, in the order of attachment,
\* and one whose JSON.parse throws has called no handler
ListenerInvocations(k, ch, text) ==
    IF IsJsonText(text)
    THEN [l \in DOMAIN listeners |->
            [listener |-> l, msg |-> k, channel |-> ch,
             event |-> ParseEvent(text), outcome |-> "pending"]]
    ELSE <<>>

\* The client emits 'message' for a message published on a channel it is
\* subscribed to
RedisInbound(ch, text) ==
    /\ proc = "running"
    /\ ch \in subscribed
    /\ Len(inbound) < MaxInbound
    /\ inbound' = Append(inbound, [channel |-> ch, message |-> text])
    /\ rtInvocations' =
          rtInvocations \o ListenerInvocations(Len(inbound) + 1, ch, text)
    /\ proc' = IF IsJsonText(text) \/ listeners = <<>>
               THEN proc
               ELSE AfterListener(proc, RealTimeListener("rejected"))
    /\ UNCHANGED <<subscribed, listeners, rtCalls>>
    /\ UNCHANGED regVars
    /\ UNCHANGED pubVars
    /\ UNCHANGED conVars
    /\ UNCHANGED cmVars
    /\ UNCHANGED mgrVars
    /\ UNCHANGED rlVars

\* The promise of handler(channel, event) of invocation i settles
RealTimeHandlerSettle(i, outcome) ==
    /\ proc = "running"
    /\ i \in DOMAIN rtInvocations
    /\ rtInvocations[i].outcome = "pending"
    /\ rtInvocations' = [rtInvocations EXCEPT ![i].outcome = outcome]
    /\ proc' = AfterListener(proc, RealTimeListener(outcome))
    /\ UNCHANGED <<subscribed, listeners, inbound, rtCalls>>
    /\ UNCHANGED regVars
    /\ UNCHANGED pubVars
    /\ UNCHANGED conVars
    /\ UNCHANGED cmVars
    /\ UNCHANGED mgrVars
    /\ UNCHANGED rlVars

SubscribeArgs ==
    { {"order:created"}, {"user:created"}, {"order:created", "user:created"} }
MaxRtInvocations == MaxSubscribes * MaxInbound

\* Subscribers to the real-time channels while other processes publish
NextRealTime ==
    \/ \E chs \in SubscribeArgs, h \in RealTimeHandlers : SubscribeStart(chs, h)
    \/ \E s \in 1..MaxSubscribes, ok \in BOOLEAN : SubscribeSettle(s, ok)
    \/ \E ch \in Channels, text \in InboundTexts : RedisInbound(ch, text)
    \/ \E i \in 1..MaxRtInvocations, o \in {"fulfilled", "rejected"} :
          RealTimeHandlerSettle(i, o)

\* Several parts of a process subscribing, each to its own channel with its
\* own handler, while other processes publish
MaxSubscribers == 2
NextRealTimeShared ==
    \/ \E ch \in Channels, h \in RealTimeHandlers :
          SubscribeStartUpTo(MaxSubscribers, {ch}, h)
    \/ \E s \in 1..MaxSubscribers : SubscribeSettle(s, TRUE)
    \/ \E ch \in Channels :
          RedisInbound(ch, RedisMessage(CallerEvent("e3", Num(2), AmountPayload)))
    \/ \E i \in 1..(MaxSubscribers * MaxInbound) :
          RealTimeHandlerSettle(i, "fulfilled")

\* A process that both subscribes to the real-time channels and publishes
\* on them
NextRealTimePublish ==
    \/ \E chs \in SubscribeArgs, h \in RealTimeHandlers : SubscribeStart(chs, h)
    \/ \E s \in 1..MaxSubscribes, ok \in BOOLEAN : SubscribeSettle(s, ok)
    \/ \E ch \in Channels :
          PublishRealTimeEvent(ch, CallerEvent("e3", Num(2), AmountPayload))
    \/ \E w \in WriteIds, ok \in BOOLEAN : RedisPublishSettle(w, ok)

(***************************************************************************)
(* DatabaseConnection, RedisConnection, KafkaConnection: connect() and     *)
(* disconnect()                                                            *)
(***************************************************************************)
Backends == {"database", "redis", "kafka"}

\* What a backend class holds: its isConnected flag and the state of the
\* client's physical connection (for kafka, of the cached producer)
BackendState(b) ==
    CASE b = "database" -> [isConnected |-> db.isConnected, phys |-> db.phys]
      [] b = "redis" -> [isConnected |-> redis.isConnected,
                         phys |-> redis.phys]
      [] b = "kafka" -> [isConnected |-> kafka.isConnected,
                         phys |-> producer]

\* A connect() / disconnect() that does not look at isConnected
ReportedConnected_ignored(b) == FALSE

\* `this.isConnected' as connect() and disconnect() read it
ReportedConnected(b) == BackendState(b).isConnected

\* A call of connect() or disconnect(): the flag it found, the number of
\* physical operations it started, the backend before and after
NewCall(op, b, ops, result) ==
    [op |-> op, backend |-> b, found |-> BackendState(b).isConnected,
     ops |-> ops,
     before |-> BackendState(b), after |-> BackendState(b),
     result |-> result]

\* connect() of a backend, up to its first await.
\*   `if (this.isConnected) return;' -- nothing else happens.
\*   database: prisma.$connect() is in flight.
\*   redis: redis.connect() is in flight, unless the client is connecting or
\*     connected already, when the client rejects the call at once.
\*   kafka: getProducer() makes, caches and connects a producer when none is
\*     cached; a cached one is returned as it is and isConnected is set.
ConnectCall(b) ==
    IF ReportedConnected(b)
       THEN /\ cmCalls' = Append(cmCalls,
                  NewCall("connect", b, 0, "fulfilled"))
            /\ UNCHANGED <<db, redis, kafka, producer>>
       ELSE CASE b = "database" ->
                 /\ cmCalls' = Append(cmCalls,
                       NewCall("connect", b, 1, "pending"))
                 /\ UNCHANGED <<db, redis, kafka, producer>>
              [] b = "redis" ->
                 IF redis.phys \in {"connecting", "open"}
                 THEN /\ cmCalls' = Append(cmCalls,
                            NewCall("connect", b, 0,
                                    AwaitRethrow("rejected")))
                      /\ redis' = [redis EXCEPT !.created = TRUE]
                      /\ UNCHANGED <<db, kafka, producer>>
                 ELSE /\ cmCalls' = Append(cmCalls,
                            NewCall("connect", b, 1, "pending"))
                      /\ redis' = [redis EXCEPT !.created = TRUE,
                                                !.phys = "connecting"]
                      /\ UNCHANGED <<db, kafka, producer>>
              [] b = "kafka" ->
                 IF ProducerCached
                 THEN /\ cmCalls' = Append(cmCalls,
                            [NewCall("connect", b, 0, "fulfilled")
                               EXCEPT !.after.isConnected = TRUE])
                      /\ kafka' = [kafka EXCEPT !.isConnected = TRUE]
                      /\ UNCHANGED <<db, redis, producer>>
                 ELSE /\ cmCalls' = Append(cmCalls,
                            NewCall("connect", b, 1, "pending"))
                      /\ kafka' = ProducerCreated
                      /\ producer' = "connecting"
                      /\ UNCHANGED <<db, redis>>

\* A caller calls connect() of backend b
ConnectStart(b) ==
    /\ Len(cmCalls) < MaxCalls
    /\ ConnectCall(b)
    /\ UNCHANGED <<now, kafkaProducer, redisClient, initCall, topics,
                   channels, writes, helpers, dlcalls>>
    /\ UNCHANGED health
    /\ UNCHANGED regVars
    /\ UNCHANGED conVars
    /\ UNCHANGED rtVars
    /\ UNCHANGED mgrVars
    /\ UNCHANGED rlVars

\* The physical connect awaited by connect() call c settles: on success
\* the backend is connected and reported connected (for redis by the
\* client's 'connect' event), on failure connect() logs and rethrows.
ConnectSettle(c, ok) ==
    /\ c \in DOMAIN cmCalls
    /\ cmCalls[c].op = "connect"
    /\ cmCalls[c].result = "pending"
    /\ \E b \in {cmCalls[c].backend} :
       /\ CASE b = "database" ->
               /\ db' = IF ok
                        THEN [isConnected |-> TRUE, phys |-> "open",
                              connects |-> IF db.phys = "open"
                                           THEN db.connects
                                           ELSE db.connects + 1]
                        ELSE db
               /\ UNCHANGED <<redis, kafka, producer>>
            [] b = "redis" ->
               /\ redis' = IF ok
                           THEN [redis EXCEPT !.isConnected = TRUE,
                                              !.phys = "open",
                                              !.connects = @ + 1]
                           ELSE [redis EXCEPT !.isConnected = FALSE,
                                              !.phys = "end"]
               /\ UNCHANGED <<db, kafka, producer>>
            [] b = "kafka" ->
               /\ producer' = IF ok THEN "connected" ELSE "unconnected"
               /\ kafka' = IF ok THEN [kafka EXCEPT !.isConnected = TRUE]
                           ELSE kafka
               /\ UNCHANGED <<db, redis>>
       /\ cmCalls' = [cmCalls EXCEPT
             ![c].result = AwaitRethrow(IF ok THEN "fulfilled"
                                        ELSE "rejected"),
             ![c].after = BackendState(b)']
    /\ UNCHANGED <<now, kafkaProducer, redisClient, initCall, topics,
                   channels, writes, helpers, dlcalls>>
    /\ UNCHANGED health
    /\ UNCHANGED regVars
    /\ UNCHANGED conVars
    /\ UNCHANGED rtVars
    /\ UNCHANGED mgrVars
    /\ UNCHANGED rlVars

\* An initializeAll() that connects kafka before redis
InitializeOrder_kafkaSecond == <<"database", "kafka", "redis">>

\* The connect() calls of initializeAll(), in the order it makes them
InitializeOrder == <<"database", "redis", "kafka">>

\* The client of backend b has an open connection (for kafka: the cached
\* producer is connected)
PhysicallyConnected(b) == BackendState(b).phys \in {"open", "connected"}

\* ConnectionManager.initializeAll(), up to its first await:
\* DatabaseConnection.connect() is called and awaited
InitializeAllStart ==
    /\ Len(initAlls) < MaxInits
    /\ ConnectCall("database")
    /\ initAlls' = Append(initAlls,
          [calls |-> <<Len(cmCalls) + 1>>, result |-> "pending",
           connected |-> [b \in Backends |-> FALSE]])
    /\ UNCHANGED shutdowns
    /\ UNCHANGED <<now, kafkaProducer, redisClient, initCall, topics,
                   channels, writes, helpers, dlcalls>>
    /\ UNCHANGED health
    /\ UNCHANGED regVars
    /\ UNCHANGED conVars
    /\ UNCHANGED rtVars
    /\ UNCHANGED rlVars

\* The connect() that initializeAll() call i awaits has settled.  Rejected:
\* the catch logs and rethrows.  Fulfilled: the next backend's connect() is
\* called and awaited, and after kafka's initializeAll() returns.
InitializeAllStep(i) ==
    /\ i \in DOMAIN initAlls
    /\ initAlls[i].result = "pending"
    /\ LET done == Len(initAlls[i].calls)
           awaited == cmCalls[initAlls[i].calls[done]].result
       IN /\ awaited # "pending"
          /\ IF awaited = "rejected"
             THEN /\ initAlls' = [initAlls EXCEPT
                        ![i].result = AwaitRethrow("rejected")]
                  /\ UNCHANGED <<cmCalls, db, redis, kafka, producer>>
             ELSE IF done < Len(InitializeOrder)
             THEN /\ ConnectCall(InitializeOrder[done + 1])
                  /\ initAlls' = [initAlls EXCEPT
                        ![i].calls = Append(@, Len(cmCalls) + 1)]
             ELSE /\ initAlls' = [initAlls EXCEPT
                        ![i].result = "fulfilled",
                        ![i].connected =
                            [b \in Backends |-> PhysicallyConnected(b)]]
                  /\ UNCHANGED <<cmCalls, db, redis, kafka, producer>>
    /\ UNCHANGED shutdowns
    /\ UNCHANGED <<now, kafkaProducer, redisClient, initCall, topics,
                   channels, writes, helpers, dlcalls>>
    /\ UNCHANGED health
    /\ UNCHANGED regVars
    /\ UNCHANGED conVars
    /\ UNCHANGED rtVars
    /\ UNCHANGED rlVars

\* disconnect() of a backend, up to its first await.
\*   `if (!this.isConnected) return;' -- nothing else happens.
\*   Otherwise the client's disconnect ($disconnect, quit, the producer's
\*   disconnect) is in flight.
DisconnectCall(b) ==
    IF ReportedConnected(b)
    THEN NewCall("disconnect", b, 1, "pending")
    ELSE NewCall("disconnect", b, 0, "fulfilled")

\* A caller calls disconnect() of backend b
DisconnectStart(b) ==
    /\ Len(cmCalls) < MaxCalls
    /\ cmCalls' = Append(cmCalls, DisconnectCall(b))
    /\ UNCHANGED <<db, redis, kafka, health>>
    /\ UNCHANGED pubVars
    /\ UNCHANGED regVars
    /\ UNCHANGED conVars
    /\ UNCHANGED rtVars
    /\ UNCHANGED mgrVars
    /\ UNCHANGED rlVars

\* A disconnect() that leaves isConnected as it was
FlagAfterDisconnect_kept == TRUE

\* `this.isConnected = false' at the end of disconnect()
FlagAfterDisconnect == FALSE

\* The entries of KafkaConnection.consumers
CachedGroups == { g \in GroupIds : consumers[g].cached }

\* How the awaits of disconnect() end: all succeed ("ok"), the first one
\* fails ("fails") or, for kafka, the producer is disconnected and the
\* disconnect of a cached consumer fails ("consumerFails")
DisconnectOutcomes == {"ok", "fails", "consumerFails"}

\* The awaits of disconnect() call c settle.  On success the client is
\* closed (for kafka the producer and every cached consumer, and the cache
\* is cleared) and isConnected is false; on a failure disconnect() logs
\* and rethrows, with what it had closed until then closed.
DisconnectSettle(c, outcome) ==
    /\ c \in DOMAIN cmCalls
    /\ cmCalls[c].op = "disconnect"
    /\ cmCalls[c].result = "pending"
    /\ outcome = "consumerFails" =>
          (cmCalls[c].backend = "kafka" /\ CachedGroups # {})
    /\ \E b \in {cmCalls[c].backend} :
       /\ CASE b = "database" ->
               /\ db' = IF outcome = "ok"
                        THEN [db EXCEPT !.isConnected = FlagAfterDisconnect,
                                        !.phys = "closed"]
                        ELSE db
               /\ UNCHANGED <<redis, kafka, producer, consumers,
                              physConsumers>>
            [] b = "redis" ->
               /\ redis' = IF outcome = "ok"
                           THEN [redis EXCEPT
                                   !.isConnected = FlagAfterDisconnect,
                                   !.phys = "end"]
                           ELSE redis
               /\ UNCHANGED <<db, kafka, producer, consumers,
                              physConsumers>>
            [] b = "kafka" ->
               /\ producer' = IF outcome = "fails" THEN producer
                              ELSE "disconnected"
               /\ consumers' = IF outcome = "ok"
                               THEN [g \in GroupIds |-> NoConsumer]
                               ELSE consumers
               /\ physConsumers' =
                     IF outcome = "ok"
                     THEN [i \in DOMAIN physConsumers |->
                             IF \E g \in CachedGroups : consumers[g].inst = i
                             THEN [physConsumers[i] EXCEPT
                                     !.state = "disconnected"]
                             ELSE physConsumers[i]]
                     ELSE physConsumers
               /\ kafka' = IF outcome = "ok"
                           THEN [kafka EXCEPT
                                   !.isConnected = FlagAfterDisconnect,
                                   !.clears = @ + 1]
                           ELSE kafka
               /\ UNCHANGED <<db, redis>>
       /\ cmCalls' = [cmCalls EXCEPT
             ![c].result = AwaitRethrow(IF outcome = "ok" THEN "fulfilled"
                                        ELSE "rejected"),
             ![c].after = BackendState(b)']
    /\ UNCHANGED <<now, kafkaProducer, redisClient, initCall, topics,
                   channels, writes, helpers, dlcalls>>
    /\ UNCHANGED <<setups, invocations, getCalls>>
    /\ UNCHANGED health
    /\ UNCHANGED regVars
    /\ UNCHANGED rtVars
    /\ UNCHANGED mgrVars
    /\ UNCHANGED rlVars

(***************************************************************************)
(* Shutdown on a termination signal: setupGracefulShutdown                 *)
(* (connection.ts), APIGateway.setupGracefulShutdown (server.ts) and       *)
(* gracefulShutdownHandler                                                 *)
(***************************************************************************)
\* The three shutdown handlers of the repository: "connections" awaits
\* ConnectionManager.closeAll(); "gateway" closes the HTTP server and then
\* the service registry; "server" closes the HTTP server
ShutdownHandlers == {"connections", "gateway", "server"}

Signals == {"SIGTERM", "SIGINT", "SIGUSR2"}

\* Whether the handler arms `setTimeout(() => process.exit(1), 30000)'
HasForceTimer(handler) == handler \in {"gateway", "server"}

\* The process installs one of the handlers for the three signals
InstallShutdown(handler) ==
    /\ proc = "running"
    /\ shutdowns.installed = "none"
    /\ shutdowns' = [shutdowns EXCEPT !.installed = handler]
    /\ UNCHANGED initAlls
    /\ UNCHANGED <<subscribed, listeners, inbound, rtInvocations, rtCalls,
                   proc>>
    /\ UNCHANGED cmVars
    /\ UNCHANGED pubVars
    /\ UNCHANGED regVars
    /\ UNCHANGED conVars
    /\ UNCHANGED rlVars

\* A run of shutdown(signal), up to where it waits.
\*   "connections": closeAll() calls the three disconnect() one after the
\*     other without awaiting in between and awaits Promise.all of them.
\*   "gateway", "server": server.close(callback) is started and the
\*     30 s timer armed.
Signal(sig) ==
    /\ proc = "running"
    /\ shutdowns.installed # "none"
    /\ Len(shutdowns.runs) < MaxSignals
    /\ shutdowns' = [shutdowns EXCEPT !.runs = Append(@,
          [signal |-> sig,
           phase |-> "closing",
           calls |-> IF shutdowns.installed = "connections"
                     THEN [b \in Backends |->
                             Len(cmCalls) + (CASE b = "database" -> 1
                                               [] b = "redis" -> 2
                                               [] b = "kafka" -> 3)]
                     ELSE [b \in Backends |-> 0],
           timer |-> HasForceTimer(shutdowns.installed),
           exit |-> "none"])]
    /\ cmCalls' = IF shutdowns.installed = "connections"
                  THEN cmCalls \o <<DisconnectCall("database"),
                                    DisconnectCall("redis"),
                                    DisconnectCall("kafka")>>
                  ELSE cmCalls
    /\ UNCHANGED <<db, redis, kafka, health>>
    /\ UNCHANGED initAlls
    /\ UNCHANGED <<subscribed, listeners, inbound, rtInvocations, rtCalls,
                   proc>>
    /\ UNCHANGED pubVars
    /\ UNCHANGED regVars
    /\ UNCHANGED conVars
    /\ UNCHANGED rlVars

\* The promise closeAll() of run r awaits: Promise.all of the three
\* disconnect() calls
CloseAllAwaited(r) ==
    PromiseAll([b \in Backends |-> cmCalls[shutdowns.runs[r].calls[b]].result])

\* `await ConnectionManager.closeAll()' of run r settles: process.exit(0)
\* when it is fulfilled; when it is rejected closeAll() logs and rethrows
\* and the catch of shutdown calls process.exit(1).
CloseAllSettle(r) ==
    /\ proc = "running"
    /\ r \in DOMAIN shutdowns.runs
    /\ shutdowns.installed = "connections"
    /\ shutdowns.runs[r].phase = "closing"
    /\ CloseAllAwaited(r) # "pending"
    /\ shutdowns' = [shutdowns EXCEPT
          ![ "runs" ][r].phase = "done",
          ![ "runs" ][r].exit =
              IF AwaitRethrow(CloseAllAwaited(r)) = "fulfilled"
              THEN "exit(0)" ELSE "exit(1)"]
    /\ proc' = "exited"
    /\ UNCHANGED initAlls
    /\ UNCHANGED <<subscribed, listeners, inbound, rtInvocations, rtCalls>>
    /\ UNCHANGED cmVars
    /\ UNCHANGED pubVars
    /\ UNCHANGED regVars
    /\ UNCHANGED conVars
    /\ UNCHANGED rlVars

\* The callback of server.close() of run r is called, with an error (the
\* server was not running: process.exit(1)) or without: "server" calls
\* process.exit(0), "gateway" awaits serviceRegistry.close().
ServerClosed(r, err) ==
    /\ proc = "running"
    /\ r \in DOMAIN shutdowns.runs
    /\ shutdowns.installed \in {"gateway", "server"}
    /\ shutdowns.runs[r].phase = "closing"
    /\ IF err
       THEN /\ shutdowns' = [shutdowns EXCEPT
                  ![ "runs" ][r].phase = "done",
                  ![ "runs" ][r].exit = "exit(1)"]
            /\ proc' = "exited"
       ELSE IF shutdowns.installed = "server"
       THEN /\ shutdowns' = [shutdowns EXCEPT
                  ![ "runs" ][r].phase = "done",
                  ![ "runs" ][r].exit = "exit(0)"]
            /\ proc' = "exited"
       ELSE /\ shutdowns' = [shutdowns EXCEPT
                  ![ "runs" ][r].phase = "cleanup"]
            /\ UNCHANGED proc
    /\ UNCHANGED initAlls
    /\ UNCHANGED <<subscribed, listeners, inbound, rtInvocations, rtCalls>>
    /\ UNCHANGED cmVars
    /\ UNCHANGED pubVars
    /\ UNCHANGED regVars
    /\ UNCHANGED conVars
    /\ UNCHANGED rlVars

\* `await this.serviceRegistry.close()' of run r of the gateway settles:
\* process.exit(0), or process.exit(1) from the catch
RegistryCloseSettle(r, ok) ==
    /\ proc = "running"
    /\ r \in DOMAIN shutdowns.runs
    /\ shutdowns.runs[r].phase = "cleanup"
    /\ shutdowns' = [shutdowns EXCEPT
          ![ "runs" ][r].phase = "done",
          ![ "runs" ][r].exit = IF ok THEN "exit(0)" ELSE "exit(1)"]
    /\ proc' = "exited"
    /\ UNCHANGED initAlls
    /\ UNCHANGED <<subscribed, listeners, inbound, rtInvocations, rtCalls>>
    /\ UNCHANGED cmVars
    /\ UNCHANGED pubVars
    /\ UNCHANGED regVars
    /\ UNCHANGED conVars
    /\ UNCHANGED rlVars

\* The 30 s timer of run r fires while the process still runs:
\* `Forced shutdown after timeout', process.exit(1)
ForceTimerFires(r) ==
    /\ proc = "running"
    /\ r \in DOMAIN shutdowns.runs
    /\ shutdowns.runs[r].timer
    /\ shutdowns' = [shutdowns EXCEPT
          ![ "runs" ][r].timer = FALSE,
          ![ "runs" ][r].exit = "forced exit(1)"]
    /\ proc' = "exited"
    /\ UNCHANGED initAlls
    /\ UNCHANGED <<subscribed, listeners, inbound, rtInvocations, rtCalls>>
    /\ UNCHANGED cmVars
    /\ UNCHANGED pubVars
    /\ UNCHANGED regVars
    /\ UNCHANGED conVars
    /\ UNCHANGED rlVars

\* The redis client emits an event that RedisConnection.getInstance()
\* listens to: 'error' (isConnected = false), 'close' when the connection
\* is lost (isConnected = false), 'connect' when the client has connected
\* again after a loss (isConnected = true).
RedisEvent(ev) ==
    /\ redis.created
    /\ CASE ev = "error" ->
               /\ redis.losses < MaxLosses
               /\ redis.phys = "open"
               /\ redis' = [redis EXCEPT !.isConnected = FALSE,
                                         !.losses = @ + 1]
          [] ev = "close" ->
               /\ redis.losses < MaxLosses
               /\ redis.phys = "open"
               /\ redis' = [redis EXCEPT !.isConnected = FALSE,
                                         !.phys = "lost",
                                         !.losses = @ + 1]
          [] ev = "connect" ->
               /\ redis.phys = "lost"
               /\ redis' = [redis EXCEPT !.isConnected = TRUE,
                                         !.phys = "open",
                                         !.connects = @ + 1]
    /\ UNCHANGED <<db, kafka, cmCalls, health>>
    /\ UNCHANGED pubVars
    /\ UNCHANGED regVars
    /\ UNCHANGED conVars
    /\ UNCHANGED rtVars
    /\ UNCHANGED mgrVars
    /\ UNCHANGED rlVars

RedisEvents == {"error", "close", "connect"}

\* RedisConnection.isHealthy(): `return this.isConnected'
IsHealthy == redis.isConnected

(***************************************************************************)
(* KafkaConnection.getProducer() and getConsumer(groupId)                  *)
(***************************************************************************)
\* The group ids callers pass to getConsumer
GetGroups == {"order-group", ReplayGroup(0)}

\* A getConsumer() that never finds a consumer cached
ConsumerCached_never(g) == FALSE

\* `this.consumers.has(groupId)'
ConsumerCached(g) == consumers[g].cached

\* A call of getProducer() (group "") or getConsumer(group): the instance
\* it made or was given, whether it made one, whether it found one cached
\* and which, the number of times the cache had been cleared when it
\* returned, and for getProducer() the connection state of the producer
\* when it was handed to the caller
NewGet(kind, g, inst, created, hit, result) ==
    [kind |-> kind, group |-> g, inst |-> inst, created |-> created,
     hit |-> hit, clears |-> kafka.clears, result |-> result,
     got |-> IF kind = "producer" THEN producer ELSE ""]

\* getProducer(), up to its await: a cached producer is returned as it is;
\* otherwise one is made, cached at once, and its connect() awaited.
GetProducerStart ==
    /\ Len(getCalls) < MaxGets
    /\ IF ProducerCached
       THEN /\ getCalls' = Append(getCalls,
                  NewGet("producer", "", kafka.producerInst, FALSE,
                         producer # "none", "fulfilled"))
            /\ UNCHANGED <<kafka, producer>>
       ELSE /\ getCalls' = Append(getCalls,
                  NewGet("producer", "", kafka.producersCreated + 1, TRUE,
                         producer # "none", "pending"))
            /\ kafka' = ProducerCreated
            /\ producer' = "connecting"
    /\ UNCHANGED <<now, kafkaProducer, redisClient, initCall, topics,
                   channels, writes, helpers, dlcalls>>
    /\ UNCHANGED <<consumers, setups, invocations, physConsumers>>
    /\ UNCHANGED <<db, redis, cmCalls, health>>
    /\ UNCHANGED regVars
    /\ UNCHANGED rtVars
    /\ UNCHANGED mgrVars
    /\ UNCHANGED rlVars

\* `await this.producer.connect()' of getProducer() call c settles
GetProducerSettle(c, ok) ==
    /\ c \in DOMAIN getCalls
    /\ getCalls[c].kind = "producer"
    /\ getCalls[c].result = "pending"
    /\ producer' = IF ok THEN "connected" ELSE "unconnected"
    /\ getCalls' = [getCalls EXCEPT
          ![c].result = IF ok THEN "fulfilled" ELSE "rejected",
          ![c].clears = kafka.clears,
          ![c].got = IF ok THEN "connected" ELSE "unconnected"]
    /\ UNCHANGED <<now, kafkaProducer, redisClient, initCall, topics,
                   channels, writes, helpers, dlcalls>>
    /\ UNCHANGED <<consumers, setups, invocations, physConsumers>>
    /\ UNCHANGED cmVars
    /\ UNCHANGED regVars
    /\ UNCHANGED rtVars
    /\ UNCHANGED mgrVars
    /\ UNCHANGED rlVars

\* getConsumer(groupId), up to its await: a consumer cached under groupId
\* is returned; otherwise one is made and its connect() awaited -- it is
\* not in the cache yet.
GetConsumerStart(g) ==
    /\ Len(getCalls) < MaxGets
    /\ IF ConsumerCached(g)
       THEN /\ getCalls' = Append(getCalls,
                  NewGet("consumer", g, consumers[g].inst, FALSE,
                         consumers[g].cached, "fulfilled"))
            /\ UNCHANGED physConsumers
       ELSE /\ getCalls' = Append(getCalls,
                  NewGet("consumer", g, Len(physConsumers) + 1, TRUE,
                         consumers[g].cached, "pending"))
            /\ physConsumers' = Append(physConsumers,
                  [group |-> g, state |-> "connecting"])
    /\ UNCHANGED <<consumers, setups, invocations>>
    /\ UNCHANGED pubVars
    /\ UNCHANGED cmVars
    /\ UNCHANGED regVars
    /\ UNCHANGED rtVars
    /\ UNCHANGED mgrVars
    /\ UNCHANGED rlVars

\* `await consumer.connect()' of getConsumer() call c settles: on success
\* the call puts its consumer in the cache, over whatever is there, and
\* returns the cached consumer; on failure it throws and caches nothing.
GetConsumerSettle(c, ok) ==
    /\ c \in DOMAIN getCalls
    /\ getCalls[c].kind = "consumer"
    /\ getCalls[c].result = "pending"
    /\ physConsumers' = [physConsumers EXCEPT
          ![getCalls[c].inst].state = IF ok THEN "connected" ELSE "failed"]
    /\ consumers' =
          IF ok
          THEN [consumers EXCEPT ![getCalls[c].group] =
                   [NoConsumer EXCEPT !.cached = TRUE,
                                      !.inst = getCalls[c].inst]]
          ELSE consumers
    /\ getCalls' = [getCalls EXCEPT
          ![c].result = IF ok THEN "fulfilled" ELSE "rejected",
          ![c].clears = kafka.clears]
    /\ UNCHANGED <<setups, invocations>>
    /\ UNCHANGED pubVars
    /\ UNCHANGED cmVars
    /\ UNCHANGED regVars
    /\ UNCHANGED rtVars
    /\ UNCHANGED mgrVars
    /\ UNCHANGED rlVars

\* No getProducer() / getConsumer() call is in progress
NoGetPending ==
    \A c \in DOMAIN getCalls : getCalls[c].result # "pending"

\* Callers of getProducer() and getConsumer() whose calls may overlap,
\* while KafkaConnection is connected and disconnected
NextKafkaClients ==
    \/ GetProducerStart
    \/ \E c \in 1..MaxGets, ok \in BOOLEAN : GetProducerSettle(c, ok)
    \/ \E g \in GetGroups : GetConsumerStart(g)
    \/ \E c \in 1..MaxGets, ok \in BOOLEAN : GetConsumerSettle(c, ok)
    \/ ConnectStart("kafka")
    \/ \E c \in 1..MaxCalls, ok \in BOOLEAN : ConnectSettle(c, ok)
    \/ DisconnectStart("kafka")
    \/ \E c \in 1..MaxCalls, o \in DisconnectOutcomes : DisconnectSettle(c, o)

\* The same, each getProducer() / getConsumer() call made after the
\* previous one returned
NextKafkaSequential ==
    \/ NoGetPending /\ GetProducerStart
    \/ \E c \in 1..MaxGets, ok \in BOOLEAN : GetProducerSettle(c, ok)
    \/ \E g \in GetGroups : NoGetPending /\ GetConsumerStart(g)
    \/ \E c \in 1..MaxGets, ok \in BOOLEAN : GetConsumerSettle(c, ok)
    \/ ConnectStart("kafka")
    \/ \E c \in 1..MaxCalls, ok \in BOOLEAN : ConnectSettle(c, ok)
    \/ DisconnectStart("kafka")
    \/ \E c \in 1..MaxCalls, o \in DisconnectOutcomes : DisconnectSettle(c, o)

\* The most connect() calls the initializeAll() calls make
MaxInitCalls == MaxInits * Len(InitializeOrder)

\* A service starting up: initializeAll() is called, and called again
\* after it failed or while it runs
NextStartup ==
    \/ InitializeAllStart
    \/ \E i \in 1..MaxInits : InitializeAllStep(i)
    \/ \E c \in 1..MaxInitCalls, ok \in BOOLEAN : ConnectSettle(c, ok)

\* The most connect() / disconnect() calls the signal handlers and the
\* callers make
MaxShutdownCalls == MaxCalls + MaxSignals * Cardinality(Backends)

\* A started service that obtains consumers, then receives termination
\* signals; nothing runs in a process that has exited
NextShutdown ==
    \/ \E h \in ShutdownHandlers : InstallShutdown(h)
    \/ \E g \in GetGroups : proc = "running" /\ GetConsumerStart(g)
    \/ \E c \in 1..MaxGets, ok \in BOOLEAN :
          proc = "running" /\ GetConsumerSettle(c, ok)
    \/ \E sig \in Signals : Signal(sig)
    \/ \E c \in 1..MaxShutdownCalls, o \in DisconnectOutcomes :
          proc = "running" /\ DisconnectSettle(c, o)
    \/ \E r \in 1..MaxSignals : CloseAllSettle(r)
    \/ \E r \in 1..MaxSignals, err \in BOOLEAN : ServerClosed(r, err)
    \/ \E r \in 1..MaxSignals, ok \in BOOLEAN : RegistryCloseSettle(r, ok)
    \/ \E r \in 1..MaxSignals : ForceTimerFires(r)

\* A service connecting and disconnecting its backends
NextLifecycle ==
    \/ \E b \in Backends : ConnectStart(b)
    \/ \E c \in 1..MaxCalls, ok \in BOOLEAN : ConnectSettle(c, ok)
    \/ \E b \in Backends : DisconnectStart(b)
    \/ \E c \in 1..MaxCalls, o \in DisconnectOutcomes : DisconnectSettle(c, o)
    \/ \E ev \in RedisEvents : RedisEvent(ev)

(***************************************************************************)
(* healthCheck() of the backends and ConnectionManager.healthCheckAll()    *)
(***************************************************************************)
\* How the probe of a backend ends: it succeeds ("ok"), it succeeds with an
\* answer other than 'PONG' (redis, "notPong"), it throws ("fails")
ProbeAnswers(b) ==
    IF b = "redis" THEN {"ok", "notPong", "fails"} ELSE {"ok", "fails"}

\* A healthCheck() without its try/catch: a probe that throws rejects it
HealthCheckPromise_rethrow(answer) ==
    CASE answer = "pending" -> [state |-> "pending", value |-> FALSE]
      [] answer = "ok" -> [state |-> "fulfilled", value |-> TRUE]
      [] answer = "notPong" -> [state |-> "fulfilled", value |-> FALSE]
      [] answer = "fails" -> [state |-> "rejected", value |-> FALSE]

\* The promise of healthCheck() given how its probe ended:
\* try { await probe; return true } catch (error) { log; return false },
\* and for redis `return result === 'PONG''
HealthCheckPromise(answer) ==
    CASE answer = "pending" -> [state |-> "pending", value |-> FALSE]
      [] answer = "ok" -> [state |-> "fulfilled", value |-> TRUE]
      [] answer = "notPong" -> [state |-> "fulfilled", value |-> FALSE]
      [] answer = "fails" -> [state |-> "fulfilled", value |-> FALSE]

\* A healthCheckAll() that reports overall when some backend is healthy
HealthReport_any(database, redisOk, kafkaOk) ==
    [database |-> database, redis |-> redisOk, kafka |-> kafkaOk,
     overall |-> database \/ redisOk \/ kafkaOk]

\* What healthCheckAll() returns for the three results:
\* overall = database && redis && kafka
HealthReport(database, redisOk, kafkaOk) ==
    [database |-> database, redis |-> redisOk, kafka |-> kafkaOk,
     overall |-> database /\ redisOk /\ kafkaOk]

\* The state of the promise a health call awaits: that of its healthCheck()
\* or of Promise.all over the three
HealthAwaited(h) ==
    PromiseAll([b \in h.backends |-> h.checks[b].state])

\* healthCheck() of backend b (backends = {b}) or healthCheckAll()
\* (backends = all three), up to the await: the probes are in flight
HealthCheckStart(op, backends) ==
    /\ Len(health) < MaxHealth
    /\ health' = Append(health,
          [op |-> op, backends |-> backends,
           probe |-> [b \in backends |-> "pending"],
           checks |-> [b \in backends |-> HealthCheckPromise("pending")],
           result |-> "pending",
           value |-> HealthReport(FALSE, FALSE, FALSE)])
    /\ UNCHANGED <<db, redis, kafka, cmCalls>>
    /\ UNCHANGED pubVars
    /\ UNCHANGED regVars
    /\ UNCHANGED conVars
    /\ UNCHANGED rtVars
    /\ UNCHANGED mgrVars
    /\ UNCHANGED rlVars

\* The probe of backend b of health call h ends.  A query that succeeds
\* has the database client connected; a ping needs the redis connection:
\* it connects a client that never connected and fails on one that was
\* closed or lost.
ProbeSettle(h, b, answer) ==
    /\ h \in DOMAIN health
    /\ b \in health[h].backends
    /\ health[h].probe[b] = "pending"
    /\ answer \in ProbeAnswers(b)
    /\ (b = "redis" /\ answer # "fails") => redis.phys \in {"wait", "open"}
    /\ health' = [health EXCEPT
          ![h].probe[b] = answer,
          ![h].checks[b] = HealthCheckPromise(answer)]
    /\ db' = IF b = "database" /\ answer = "ok" /\ db.phys # "open"
             THEN [db EXCEPT !.phys = "open", !.connects = @ + 1]
             ELSE db
    /\ redis' = IF b = "redis"
                THEN IF answer # "fails" /\ redis.phys = "wait"
                     THEN [redis EXCEPT !.created = TRUE,
                                        !.isConnected = TRUE,
                                        !.phys = "open",
                                        !.connects = @ + 1]
                     ELSE [redis EXCEPT !.created = TRUE]
                ELSE redis
    /\ UNCHANGED <<kafka, cmCalls>>
    /\ UNCHANGED pubVars
    /\ UNCHANGED regVars
    /\ UNCHANGED conVars
    /\ UNCHANGED rtVars
    /\ UNCHANGED mgrVars
    /\ UNCHANGED rlVars

\* The promise health call h awaits settles and the call returns: the
\* boolean of its healthCheck(), or the report of healthCheckAll()
HealthSettle(h) ==
    /\ h \in DOMAIN health
    /\ health[h].result = "pending"
    /\ HealthAwaited(health[h]) # "pending"
    /\ health' = [health EXCEPT
          ![h].result = HealthAwaited(health[h]),
          ![h].value =
              IF HealthAwaited(health[h]) # "fulfilled" THEN @
              ELSE IF health[h].op = "healthCheckAll"
              THEN HealthReport(health[h].checks["database"].value,
                                health[h].checks["redis"].value,
                                health[h].checks["kafka"].value)
              ELSE LET b == CHOOSE x \in health[h].backends : TRUE
                   IN [@ EXCEPT ![b] = health[h].checks[b].value]]
    /\ UNCHANGED <<db, redis, kafka, cmCalls>>
    /\ UNCHANGED pubVars
    /\ UNCHANGED regVars
    /\ UNCHANGED conVars
    /\ UNCHANGED rtVars
    /\ UNCHANGED mgrVars
    /\ UNCHANGED rlVars

\* The health calls callers make
HealthCalls ==
    { <<"healthCheck", {b}>> : b \in Backends }
        \cup { <<"healthCheckAll", Backends>> }

\* A started service probing its backends, whose connections may be lost
NextHealth ==
    \/ \E hc \in HealthCalls : HealthCheckStart(hc[1], hc[2])
    \/ \E h \in 1..MaxHealth, b \in Backends :
          \E answer \in ProbeAnswers(b) : ProbeSettle(h, b, answer)
    \/ \E h \in 1..MaxHealth : HealthSettle(h)
    \/ \E ev \in RedisEvents : RedisEvent(ev)

(***************************************************************************)
(* isRateLimited (auth.ts): a sliding window kept in a sorted set          *)
(***************************************************************************)
\* The limits and windows (ms) callers pass
RateLimits == {1, 2}
RateWindows == {1}

\* Math.ceil(windowMs / 1000), in ms
ExpireMs(windowMs) == ((windowMs + 999) \div 1000) * 1000

\* The members of the sorted set as the store sees them at the time `now':
\* none once the key has expired
LiveEntries ==
    IF \E t \in limiter.ttl : now >= t THEN {} ELSE limiter.entries

\* The time to live of the key, none once it has expired
LiveTtl ==
    IF \E t \in limiter.ttl : now >= t THEN {} ELSE limiter.ttl

\* zremrangebyscore(key, 0, windowStart)
ZRemRangeByScore(entries, windowStart) ==
    { e \in entries : ~(0 <= e.score /\ e.score <= windowStart) }

\* The score zrange(key, 0, 0, 'WITHSCORES') returns
OldestScore(entries) ==
    CHOOSE m \in { e.score : e \in entries } :
        \A e \in entries : m <= e.score

\* `if (currentCount >= limit)'
OverLimit(count, limit) == count >= limit

\* isRateLimited(redisClient, key, limit, windowMs), up to its first await:
\* Date.now() is read and zremrangebyscore is sent.  The calls are for one
\* key and pass the same limit and window.
IsRateLimitedStart(limit, windowMs) ==
    /\ Len(limiter.calls) < MaxRateCalls
    /\ \A c \in DOMAIN limiter.calls :
          /\ limiter.calls[c].limit = limit
          /\ limiter.calls[c].windowMs = windowMs
    /\ limiter' = [limiter EXCEPT
          !.calls = Append(@, [limit |-> limit, windowMs |-> windowMs,
                               now |-> now, pc |-> "zremrangebyscore",
                               count |-> 0, result |-> "pending",
                               remaining |-> 0, resetTime |-> 0]),
          !.queue = Append(@, Len(limiter.calls) + 1)]
    /\ UNCHANGED pubVars
    /\ UNCHANGED regVars
    /\ UNCHANGED conVars
    /\ UNCHANGED rtVars
    /\ UNCHANGED cmVars
    /\ UNCHANGED mgrVars

\* The store executes the oldest command the client has sent and the call
\* that awaits it goes on to its next await or returns; a command that
\* fails rejects the call.  The client sends commands in the order the
\* calls issue them.
RedisReply(ok) ==
    /\ limiter.queue # <<>>
    /\ LET c == Head(limiter.queue)
           call == limiter.calls[c]
           next(pc) == [limiter EXCEPT
                          !.entries = LiveEntries, !.ttl = LiveTtl,
                          !.calls[c].pc = pc,
                          !.queue = Append(Tail(@), c)]
           return(result) == [limiter EXCEPT
                          !.entries = LiveEntries, !.ttl = LiveTtl,
                          !.calls[c].pc = "done",
                          !.calls[c].result = result,
                          !.queue = Tail(@)]
       IN  IF ~ok
           THEN limiter' = return("rejected")
           ELSE CASE call.pc = "zremrangebyscore" ->
                     limiter' = [next("zcard") EXCEPT
                        !.entries = ZRemRangeByScore(LiveEntries,
                                        call.now - call.windowMs)]
                  [] call.pc = "zcard" ->
                     limiter' = [next(IF OverLimit(Cardinality(LiveEntries),
                                                  call.limit)
                                      THEN "zrange" ELSE "zadd") EXCEPT
                        !.calls[c].count = Cardinality(LiveEntries)]
                  [] call.pc = "zrange" ->
                     limiter' = [return("limited") EXCEPT
                        !.calls[c].remaining = 0,
                        !.calls[c].resetTime =
                            IF LiveEntries # {}
                            THEN OldestScore(LiveEntries) + call.windowMs
                            ELSE call.now + call.windowMs]
                  [] call.pc = "zadd" ->
                     limiter' = [next("expire") EXCEPT
                        !.entries = LiveEntries \cup
                            {[score |-> call.now, member |-> <<call.now, c>>]}]
                  [] call.pc = "expire" ->
                     limiter' = [return("admitted") EXCEPT
                        !.ttl = IF LiveEntries = {} THEN {}
                                ELSE {now + ExpireMs(call.windowMs)},
                        !.calls[c].remaining = call.limit - call.count - 1,
                        !.calls[c].resetTime = call.now + call.windowMs]
    /\ UNCHANGED pubVars
    /\ UNCHANGED regVars
    /\ UNCHANGED conVars
    /\ UNCHANGED rtVars
    /\ UNCHANGED cmVars
    /\ UNCHANGED mgrVars

\* Callers asking the rate limiter about one key while time passes
NextRateLimit ==
    \/ Tick
    \/ \E limit \in RateLimits, w \in RateWindows :
          IsRateLimitedStart(limit, w)
    \/ \E ok \in BOOLEAN : RedisReply(ok)

NextRegistry ==
    \/ \E t \in RegistryTypes, h \in HandlerIds : Register(t, h)
    \/ \E t \in RegistryTypes : Dispatch(t)
    \/ \E d \in 1..MaxDispatch, i \in 1..MaxHandlers,
          o \in {"fulfilled", "rejected"} : HandlerSettle(d, i, o)
    \/ \E d \in 1..MaxDispatch : DispatchSettle(d)

Init ==
    /\ handlers = [t \in RegistryTypes |-> <<>>]
    /\ dispatches = <<>>
    /\ now = 0
    /\ producer = "none"
    /\ kafkaProducer = "undefined"
    /\ redisClient = "undefined"
    /\ initCall = "idle"
    /\ topics = [t \in Topics |-> <<>>]
    /\ channels = [c \in Channels |-> <<>>]
    /\ writes = <<>>
    /\ helpers = <<>>
    /\ dlcalls = <<>>
    /\ consumers = [g \in GroupIds |-> NoConsumer]
    /\ physConsumers = <<>>
    /\ getCalls = <<>>
    /\ setups = <<>>
    /\ invocations = <<>>
    /\ subscribed = {}
    /\ listeners = <<>>
    /\ inbound = <<>>
    /\ rtInvocations = <<>>
    /\ rtCalls = <<>>
    /\ proc = "running"
    /\ db = [isConnected |-> FALSE, phys |-> "closed", connects |-> 0]
    /\ redis = [created |-> FALSE, isConnected |-> FALSE, phys |-> "wait",
                connects |-> 0, losses |-> 0]
    /\ kafka = [isConnected |-> FALSE, producerInst |-> 0,
                producersCreated |-> 0, producerConnects |-> 0,
                clears |-> 0]
    /\ cmCalls = <<>>
    /\ health = <<>>
    /\ initAlls = <<>>
    /\ shutdowns = NoShutdown
    /\ limiter = NoLimiter

SpecRegistry == Init /\ [][NextRegistry]_vars

\* The state a successful `await eventBus.initialize()' leaves
InitReady ==
    /\ handlers = [t \in RegistryTypes |-> <<>>]
    /\ dispatches = <<>>
    /\ now = 0
    /\ producer = "connected"
    /\ kafkaProducer = "set"
    /\ redisClient = "set"
    /\ initCall = "fulfilled"
    /\ topics = [t \in Topics |-> <<>>]
    /\ channels = [c \in Channels |-> <<>>]
    /\ writes = <<>>
    /\ helpers = <<>>
    /\ dlcalls = <<>>
    /\ consumers = [g \in GroupIds |-> NoConsumer]
    /\ physConsumers = <<>>
    /\ getCalls = <<>>
    /\ setups = <<>>
    /\ invocations = <<>>
    /\ subscribed = {}
    /\ listeners = <<>>
    /\ inbound = <<>>
    /\ rtInvocations = <<>>
    /\ rtCalls = <<>>
    /\ proc = "running"
    /\ db = [isConnected |-> FALSE, phys |-> "closed", connects |-> 0]
    /\ redis = [created |-> TRUE, isConnected |-> FALSE, phys |-> "wait",
                connects |-> 0, losses |-> 0]
    /\ kafka = [isConnected |-> FALSE, producerInst |-> 1,
                producersCreated |-> 1, producerConnects |-> 1,
                clears |-> 0]
    /\ cmCalls = <<>>
    /\ health = <<>>
    /\ initAlls = <<>>
    /\ shutdowns = NoShutdown
    /\ limiter = NoLimiter

\* The state a successful ConnectionManager.initializeAll() leaves: the
\* three backends connected and reported connected
InitStarted ==
    /\ handlers = [t \in RegistryTypes |-> <<>>]
    /\ dispatches = <<>>
    /\ now = 0
    /\ producer = "connected"
    /\ kafkaProducer = "undefined"
    /\ redisClient = "undefined"
    /\ initCall = "idle"
    /\ topics = [t \in Topics |-> <<>>]
    /\ channels = [c \in Channels |-> <<>>]
    /\ writes = <<>>
    /\ helpers = <<>>
    /\ dlcalls = <<>>
    /\ consumers = [g \in GroupIds |-> NoConsumer]
    /\ physConsumers = <<>>
    /\ getCalls = <<>>
    /\ setups = <<>>
    /\ invocations = <<>>
    /\ subscribed = {}
    /\ listeners = <<>>
    /\ inbound = <<>>
    /\ rtInvocations = <<>>
    /\ rtCalls = <<>>
    /\ proc = "running"
    /\ db = [isConnected |-> TRUE, phys |-> "open", connects |-> 1]
    /\ redis = [created |-> TRUE, isConnected |-> TRUE, phys |-> "open",
                connects |-> 1, losses |-> 0]
    /\ kafka = [isConnected |-> TRUE, producerInst |-> 1,
                producersCreated |-> 1, producerConnects |-> 1,
                clears |-> 0]
    /\ cmCalls = <<>>
    /\ health = <<>>
    /\ initAlls = <<>>
    /\ shutdowns = NoShutdown
    /\ limiter = NoLimiter

SpecPublish == Init /\ [][NextPublish]_vars
SpecHealth == InitStarted /\ [][NextHealth]_vars
SpecStartup == Init /\ [][NextStartup]_vars
SpecShutdown == InitStarted /\ [][NextShutdown]_vars
SpecHelper == InitReady /\ [][NextHelper]_vars
SpecDeadLetter == InitReady /\ [][NextDeadLetter]_vars
SpecEventIds == InitReady /\ [][NextEventIds]_vars
SpecRetry == InitReady /\ [][NextRetry]_vars
SpecConsume == InitReady /\ [][NextConsume]_vars
SpecReplay == InitReady /\ [][NextReplay]_vars
SpecConsumeFaults == InitReady /\ [][NextConsumeFaults]_vars
SpecRealTime == InitReady /\ [][NextRealTime]_vars
SpecRealTimePublish == InitReady /\ [][NextRealTimePublish]_vars
SpecRealTimeShared == InitReady /\ [][NextRealTimeShared]_vars
SpecRateLimit == InitReady /\ [][NextRateLimit]_vars
SpecLifecycle == Init /\ [][NextLifecycle]_vars
SpecKafkaClients == Init /\ [][NextKafkaClients]_vars
SpecKafkaSequential == Init /\ [][NextKafkaSequential]_vars

\* The broker and the consumer client make progress, handlers settle:
\* a replay consumer reaches the end of its topic.
FairSpecReplay ==
    /\ InitReady
    /\ [][NextReplay]_vars
    /\ WF_vars(\E w \in WriteIds, ok \in BOOLEAN : KafkaSendSettle(w, ok))
    /\ WF_vars(\E g \in GroupIds, t \in Topics : ConsumerDeliver(g, t))
    /\ WF_vars(\E i \in 1..MaxInvocations, o \in {"fulfilled", "rejected"} :
                  ConsumerHandlerSettle(i, o))

\* The event loop runs the continuation of a shutdown whose closeAll()
\* has settled, and a timer that is armed fires.  The backends are under
\* no obligation to answer a disconnect, nor the HTTP clients to end
\* their connections so that server.close() calls back.
FairSpecShutdown ==
    /\ InitStarted
    /\ [][NextShutdown]_vars
    /\ WF_vars(\E r \in 1..MaxSignals : CloseAllSettle(r))
    /\ WF_vars(\E r \in 1..MaxSignals : ForceTimerFires(r))

\* The event loop runs the continuation of a health call whose awaited
\* promise has settled, and the kafka client bounds its own requests
\* (connectionTimeout, requestTimeout, retries: 8), so the kafka probe
\* ends.  $queryRaw and ping() have no timeout of their own: a database or
\* a redis that keeps the connection open and does not answer is under no
\* obligation.
FairSpecHealth ==
    /\ InitStarted
    /\ [][NextHealth]_vars
    /\ WF_vars(\E h \in 1..MaxHealth : HealthSettle(h))
    /\ WF_vars(\E h \in 1..MaxHealth, answer \in ProbeAnswers("kafka") :
                  ProbeSettle(h, "kafka", answer))

\* The event loop runs every continuation that is ready and the broker
\* and the consumer client make progress: writes settle, fetched records
\* are handed to eachMessage, handlers and awaits settle.  Calls made by
\* the users of the bus are under no obligation.
FairSpecConsumeDeadLetter ==
    /\ InitReady
    /\ [][NextConsumeDeadLetter]_vars
    /\ WF_vars(\E w \in WriteIds, ok \in BOOLEAN : KafkaSendSettle(w, ok))
    /\ WF_vars(\E g \in GroupIds, t \in Topics : ConsumerDeliver(g, t))
    /\ WF_vars(\E i \in 1..MaxInvocations, o \in {"fulfilled", "rejected"} :
                  ConsumerHandlerSettle(i, o))
    /\ WF_vars(\E c \in 1..MaxDeadLetters : DeadLetterSettle(c))

(***************************************************************************)
(* C1: EventRegistry.dispatch never raises to its caller; every handler    *)
(* registered for the event's type is invoked exactly once, whether or not *)
(* a sibling failed, and dispatch returns only once all of them settled.   *)
(***************************************************************************)
C1_DispatchIsolatesFaults ==
    \A d \in DOMAIN dispatches :
        LET c == dispatches[d] IN
        /\ c.result # "rejected"
        /\ DOMAIN c.calls = DOMAIN c.hs
        /\ \A i \in DOMAIN c.hs : c.calls[i] = 1
        /\ c.result = "fulfilled" =>
              \A i \in DOMAIN c.run : c.run[i] # "pending"

\* dispatch has returned although one of two handlers failed
C1_Witness ==
    \E d \in DOMAIN dispatches :
        LET c == dispatches[d] IN
        /\ c.result = "fulfilled"
        /\ \E i, j \in DOMAIN c.run :
              c.run[i] = "rejected" /\ c.run[j] = "fulfilled"

\* The records of topic t, and the broadcasts of channel c, that write w made
RecordsBy(t, w) == { i \in DOMAIN topics[t] : topics[t][i].by = w }
BroadcastsBy(c, w) == { i \in DOMAIN channels[c] : channels[c][i].by = w }

(***************************************************************************)
(* C3: a successful publishEvent(topic, event) has appended exactly one    *)
(* record to that topic and none to another; its key is event.id, its      *)
(* value the serialized event, its headers eventType = event.type,         *)
(* source = event.source and version = event.version.                      *)
(***************************************************************************)
C3_PublishAppendsOneRecord ==
    \A w \in DOMAIN writes :
        (writes[w].kind = "kafka" /\ writes[w].promise = "fulfilled") =>
            /\ \A t \in Topics :
                  Cardinality(RecordsBy(t, w)) =
                      IF t = writes[w].dest THEN 1 ELSE 0
            /\ \A i \in RecordsBy(writes[w].dest, w) :
                  LET r == topics[writes[w].dest][i]
                      e == writes[w].event IN
                  /\ r.key = e.id
                  /\ r.value = JsonStringify(Obj(e))
                  /\ r.headers = [eventType |-> e.type, source |-> e.source,
                                  version |-> e.version]

\* a publishEvent call has succeeded
C3_Witness ==
    \E w \in DOMAIN writes :
        /\ writes[w].kind = "kafka"
        /\ writes[w].promise = "fulfilled"
        /\ RecordsBy(writes[w].dest, w) # {}

(***************************************************************************)
(* C4: a publishEvent or publishRealTimeEvent call fails exactly when its  *)
(* channel write failed and succeeds exactly when the write succeeded (the *)
(* message is then on the channel); one write attempt is made per call.    *)
(***************************************************************************)
C4_PublishFailsIffWriteFails ==
    \A w \in DOMAIN writes :
        LET onChannel ==
              IF writes[w].kind = "kafka"
              THEN RecordsBy(writes[w].dest, w) # {}
              ELSE BroadcastsBy(writes[w].dest, w) # {}
        IN
        /\ writes[w].promise = "rejected" <=> writes[w].phys = "failed"
        /\ writes[w].promise = "fulfilled" <=> writes[w].phys = "ok"
        /\ writes[w].phys = "ok" <=> onChannel
        /\ writes[w].attempts = 1

\* one call has failed with its write and a call on each channel succeeded
C4_Witness ==
    \E w1, w2 \in DOMAIN writes :
        /\ writes[w1].phys = "failed" /\ writes[w1].promise = "rejected"
        /\ writes[w2].phys = "ok" /\ writes[w2].promise = "fulfilled"
        /\ writes[w1].kind # writes[w2].kind

(***************************************************************************)
(* C5: a domain publish helper whose two writes succeeded has produced     *)
(* exactly one record on its topic and exactly one broadcast on its        *)
(* channel, both carrying the one event it built: the same id and the      *)
(* domain keys it was called with (publishOrderCreated: order-events,      *)
(* order:created, orderId and userId).                                     *)
(***************************************************************************)
C5_HelperFansOutOneEvent ==
    \A h \in DOMAIN helpers :
        LET c == helpers[h]
            k == HelperPart(c, "kafka")
            r == HelperPart(c, "redis") IN
        c.result = "fulfilled" =>
            /\ k # 0 /\ r # 0
            /\ Cardinality(RecordsBy(c.topic, k)) = 1
            /\ Cardinality(BroadcastsBy(c.channel, r)) = 1
            /\ \A i \in RecordsBy(c.topic, k), j \in BroadcastsBy(c.channel, r) :
                  LET onTopic == ParseEvent(topics[c.topic][i].value)
                      onChannel == ParseEvent(channels[c.channel][j].message)
                  IN
                  /\ onTopic.id = c.event.id
                  /\ onChannel.id = c.event.id
                  /\ \A f \in DOMAIN c.args :
                        onTopic[f] = c.args[f] /\ onChannel[f] = c.args[f]
            /\ c.name = "publishOrderCreated" =>
                  c.topic = "order-events" /\ c.channel = "order:created"

\* publishOrderCreated has returned
C5_Witness ==
    \E h \in DOMAIN helpers :
        /\ helpers[h].name = "publishOrderCreated"
        /\ helpers[h].result = "fulfilled"
        /\ Len(topics["order-events"]) = 1
        /\ Len(channels["order:created"]) = 1

(***************************************************************************)
(* C6: a domain publish helper call fails if and only if one of its two    *)
(* writes failed; both writes are started whatever becomes of the other,   *)
(* and the failure of one does not undo the other.                         *)
(***************************************************************************)
C6_HelperFailsIffAWriteFails ==
    \A h \in DOMAIN helpers :
        LET c == helpers[h]
            k == HelperPart(c, "kafka")
            r == HelperPart(c, "redis") IN
        /\ k # 0 /\ r # 0
        /\ c.result = "rejected" =>
              writes[k].phys = "failed" \/ writes[r].phys = "failed"
        /\ c.result = "fulfilled" =>
              writes[k].phys = "ok" /\ writes[r].phys = "ok"
        /\ (writes[k].phys = "failed" \/ writes[r].phys = "failed") =>
              c.result # "fulfilled"
        /\ writes[k].phys = "ok" => RecordsBy(c.topic, k) # {}
        /\ writes[r].phys = "ok" => BroadcastsBy(c.channel, r) # {}

\* a helper call has failed with its durable write while its broadcast
\* went through
C6_Witness ==
    \E h \in DOMAIN helpers :
        LET c == helpers[h] IN
        /\ c.result = "rejected"
        /\ writes[HelperPart(c, "kafka")].phys = "failed"
        /\ writes[HelperPart(c, "redis")].phys = "ok"
        /\ BroadcastsBy(c.channel, HelperPart(c, "redis")) # {}

\* Helper call h has failed, its broadcast has failed and its durable write
\* has not
FailedByBroadcast(h) ==
    LET c == helpers[h] IN
    /\ c.result = "rejected"
    /\ HelperPart(c, "redis") # 0
    /\ writes[HelperPart(c, "redis")].phys = "failed"
    /\ HelperPart(c, "kafka") # 0 =>
          writes[HelperPart(c, "kafka")].phys # "failed"

C9_DeadLetterRecord ==
    \A c \in DOMAIN dlcalls :
        dlcalls[c].result = "fulfilled" =>
            /\ Cardinality(RecordsBy(DeadLetterTopic, dlcalls[c].w)) = 1
            /\ \A t \in Topics \ {DeadLetterTopic} :
                  RecordsBy(t, dlcalls[c].w) = {}
            /\ \A i \in RecordsBy(DeadLetterTopic, dlcalls[c].w) :
                  LET r == ParseEvent(topics[DeadLetterTopic][i].value)
                      e == dlcalls[c].event IN
                  /\ r.type = Str(e.type[2] \o "_DEAD_LETTER")
                  /\ r.originalEventId = e.id
                  /\ r.error[2].message = Str(dlcalls[c].error)
                  /\ r.id # e.id

\* The invocations a group made for the record at an offset of a topic
InvocationsFor(g, t, o) ==
    { i \in DOMAIN invocations :
        /\ invocations[i].group = g
        /\ invocations[i].topic = t
        /\ invocations[i].offset = o }

\* The records of topic t that the consumer of group g is done with
Consumed(g, t) == (consumers[g].start[t] + 1) .. consumers[g].pos[t]

\* A value with every Date in it replaced by its ISO string
RECURSIVE DatesAsIso(_)
DatesAsIso(v) ==
    CASE v[1] = "date" -> Str("iso:" \o ToString(v[2]))
      [] v[1] = "obj" -> Obj([f \in DOMAIN v[2] |-> DatesAsIso(v[2][f])])
      [] OTHER -> v

Instant(v) == v[2]

(***************************************************************************)
(* C8, as claimed: replayEvents(topic, from, to, handler) invokes handler  *)
(* exactly once for each event of the topic that it reads and whose        *)
(* timestamp t satisfies from <= t <= to, and never for another event.     *)
(***************************************************************************)
C8_ReplayWindow ==
    \A g \in GroupIds : consumers[g].kind = "replay" =>
        \A t \in consumers[g].topics : \A o \in Consumed(g, t) :
            LET e == writes[topics[t][o].by].event
                inWindow ==
                    /\ Instant(consumers[g].from) <= Instant(e.timestamp)
                    /\ Instant(e.timestamp) <= Instant(consumers[g].to)
            IN Cardinality(InvocationsFor(g, t, o)) =
                   IF inWindow THEN 1 ELSE 0

(***************************************************************************)
(* C10, as claimed: whenever a handler given to setupEventConsumer fails   *)
(* on an event, a dead-letter record with originalEventId = the event's id *)
(* is eventually published to dead-letter-events.                          *)
(***************************************************************************)
DeadLettered(id) ==
    \E i \in DOMAIN topics[DeadLetterTopic] :
        ParseEvent(topics[DeadLetterTopic][i].value).originalEventId = id

HandlerFailed(i) ==
    /\ i \in DOMAIN invocations
    /\ invocations[i].outcome = "rejected"

C10_FailureIsDeadLettered ==
    \A i \in 1..MaxInvocations :
        HandlerFailed(i) ~>
            (i \in DOMAIN invocations /\ DeadLettered(invocations[i].event.id))

(***************************************************************************)
(* C11: in setupEventConsumer a handler exception or an undecodable        *)
(* message is caught: the consumer keeps running and is free for the next  *)
(* record, the failed record counts as consumed (the consumer's position   *)
(* is past it) and no record is handed to the handler twice; a record that *)
(* cannot be decoded is never handed to the handler.                       *)
(***************************************************************************)
PendingInvocations(g) ==
    { i \in DOMAIN invocations :
        invocations[i].group = g /\ invocations[i].outcome = "pending" }

C11_ConsumeFailureIsolated ==
    \A g \in ConsumerGroups :
        LET c == consumers[g] IN
        /\ (\E s \in DOMAIN setups :
               setups[s].group = g /\ setups[s].result = "fulfilled")
              => c.running
        /\ c.busy <=> PendingInvocations(g) # {}
        /\ \A t \in c.topics : \A o \in DOMAIN topics[t] :
              /\ Cardinality(InvocationsFor(g, t, o)) <= 1
              /\ ~IsJsonText(topics[t][o].value) => InvocationsFor(g, t, o) = {}
              /\ \A i \in InvocationsFor(g, t, o) :
                    invocations[i].outcome # "pending" => o \in Consumed(g, t)

\* the handler failed on a record, a later record could not be decoded, and
\* a record after both has been handed to the handler
C11_Witness ==
    \E g \in ConsumerGroups : \E i, j \in DOMAIN invocations :
        /\ invocations[i].group = g /\ invocations[j].group = g
        /\ invocations[i].topic = "order-events"
        /\ invocations[j].topic = "order-events"
        /\ invocations[i].outcome = "rejected"
        /\ \E o \in Consumed(g, "order-events") :
              /\ invocations[i].offset < o
              /\ o < invocations[j].offset
              /\ topics["order-events"][o].value = RawValue

(***************************************************************************)
(* C13: for one consumer set up with setupEventConsumer, the handler       *)
(* invocations for the records of one partition start in write order and   *)
(* one at a time: when an invocation starts, every earlier invocation of   *)
(* that consumer for the partition has settled.                            *)
(***************************************************************************)
C13_SequentialPerPartition ==
    \A i, j \in DOMAIN invocations :
        ( /\ i < j
          /\ invocations[i].group = invocations[j].group
          /\ invocations[i].topic = invocations[j].topic )
        => /\ invocations[i].offset < invocations[j].offset
           /\ invocations[i].outcome # "pending"

\* a second record of the partition is with the handler
C13_Witness ==
    \E i, j \in DOMAIN invocations :
        /\ i < j
        /\ invocations[i].group = invocations[j].group
        /\ invocations[i].topic = invocations[j].topic
        /\ invocations[j].outcome = "pending"

(***************************************************************************)
(* C12: in subscribeToRealTimeEvents a handler that raises, or a message   *)
(* that cannot be parsed, does not propagate (no promise of a listener is  *)
(* rejected, the process keeps running), the listener stays attached, and  *)
(* every message received on a channel of the call after it subscribed is  *)
(* given to the call's handler exactly once when it can be parsed and not  *)
(* at all when it cannot -- a failed message is never given again.         *)
(***************************************************************************)
RtInvocationsFor(l, k) ==
    { i \in DOMAIN rtInvocations :
        rtInvocations[i].listener = l /\ rtInvocations[i].msg = k }

C12_SubscriptionFailureIsolated ==
    /\ proc = "running"
    /\ \A s \in DOMAIN rtCalls :
          rtCalls[s].result = "fulfilled" =>
             /\ rtCalls[s].listener \in DOMAIN listeners
             /\ listeners[rtCalls[s].listener].handler = rtCalls[s].handler
             /\ rtCalls[s].channels \subseteq subscribed
    /\ \A l \in DOMAIN listeners : \A k \in DOMAIN inbound :
          (k > listeners[l].since /\ inbound[k].channel \in listeners[l].channels)
          => Cardinality(RtInvocationsFor(l, k)) =
                IF IsJsonText(inbound[k].message) THEN 1 ELSE 0

\* the handler of a subscription raised for one message and was given the
\* next message of its channel
C12_Witness ==
    \E l \in DOMAIN listeners : \E i, j \in DOMAIN rtInvocations :
        /\ rtInvocations[i].listener = l /\ rtInvocations[j].listener = l
        /\ rtInvocations[i].outcome = "rejected"
        /\ rtInvocations[i].msg < rtInvocations[j].msg
        /\ rtInvocations[j].channel \in listeners[l].channels

(***************************************************************************)
(* C14: for each backend, connect() called while the backend is reported   *)
(* connected is a no-op: it starts no physical connect, returns normally   *)
(* and leaves the connection state as it was; and as long as the backend   *)
(* is neither disconnected nor lost, all the connect() calls made have     *)
(* established at most one physical connection.                            *)
(***************************************************************************)
PhysicalConnects(b) ==
    CASE b = "database" -> db.connects
      [] b = "redis" -> redis.connects
      [] b = "kafka" -> kafka.producerConnects

CallsOf(op, b) ==
    { c \in DOMAIN cmCalls : cmCalls[c].op = op /\ cmCalls[c].backend = b }

C14_ConnectIsIdempotent ==
    \A b \in Backends :
        /\ \A c \in CallsOf("connect", b) :
              cmCalls[c].found =>
                 /\ cmCalls[c].ops = 0
                 /\ cmCalls[c].result = "fulfilled"
                 /\ cmCalls[c].after = cmCalls[c].before
        /\ (CallsOf("disconnect", b) = {} /\ redis.losses = 0)
              => PhysicalConnects(b) <= 1

\* a backend was connected by one connect() and connect() was called again
C14_Witness ==
    \E b \in Backends : \E c1, c2 \in CallsOf("connect", b) :
        /\ c1 < c2
        /\ cmCalls[c1].ops = 1 /\ cmCalls[c1].result = "fulfilled"
        /\ cmCalls[c2].found /\ cmCalls[c2].result = "fulfilled"
        /\ PhysicalConnects(b) = 1

(***************************************************************************)
(* C15: for each backend, disconnect() called while the backend is         *)
(* reported not connected is a no-op (no physical disconnect is started,   *)
(* it returns normally, the state is as it was), and a disconnect() of a   *)
(* connected backend that succeeds leaves the backend reported as not      *)
(* connected, so that a disconnect() after it is such a no-op.             *)
(***************************************************************************)
C15_DisconnectIsIdempotent ==
    \A b \in Backends : \A c \in CallsOf("disconnect", b) :
        /\ ~cmCalls[c].found =>
              /\ cmCalls[c].ops = 0
              /\ cmCalls[c].result = "fulfilled"
              /\ cmCalls[c].after = cmCalls[c].before
        /\ (cmCalls[c].found /\ cmCalls[c].result = "fulfilled") =>
              /\ cmCalls[c].ops = 1
              /\ ~cmCalls[c].after.isConnected

\* a connected backend was disconnected and disconnect() was called again
C15_Witness ==
    \E b \in Backends : \E c1, c2 \in CallsOf("disconnect", b) :
        /\ c1 < c2
        /\ cmCalls[c1].found /\ cmCalls[c1].result = "fulfilled"
        /\ ~cmCalls[c2].found /\ cmCalls[c2].result = "fulfilled"
        /\ cmCalls[c2].ops = 0

(***************************************************************************)
(* C16: every getProducer() call that returns, returns the same producer   *)
(* instance; one producer is made and connected, by the first call that    *)
(* needs it, and no later call makes or connects another, whether calls    *)
(* overlap, the connect failed or KafkaConnection was disconnected.        *)
(***************************************************************************)
GetsOf(kind) == { c \in DOMAIN getCalls : getCalls[c].kind = kind }

C16_ProducerIsSingleton ==
    /\ kafka.producersCreated <= 1
    /\ kafka.producerConnects <= 1
    /\ \A c \in GetsOf("producer") :
          /\ getCalls[c].result = "fulfilled" =>
                getCalls[c].inst = kafka.producerInst
          /\ getCalls[c].created =>
                \A c1 \in GetsOf("producer") : c1 >= c

\* the first getProducer() made the producer and a later one returned it
C16_Witness ==
    \E c1, c2 \in GetsOf("producer") :
        /\ c1 < c2
        /\ getCalls[c1].created /\ getCalls[c1].result = "fulfilled"
        /\ getCalls[c2].result = "fulfilled"
        /\ getCalls[c2].inst = getCalls[c1].inst

LiveConsumers(g) ==
    { i \in DOMAIN physConsumers :
        /\ physConsumers[i].group = g
        /\ physConsumers[i].state \in {"connecting", "connected"} }

C18_SingletonsUnderRace ==
    /\ kafka.producersCreated <= 1
    /\ kafka.clears = 0 =>
          \A g \in GetGroups :
             /\ Cardinality(LiveConsumers(g)) <= 1
             /\ \A i \in LiveConsumers(g) :
                   physConsumers[i].state = "connected" =>
                      consumers[g].inst = i
    /\ \A c1, c2 \in GetsOf("consumer") :
          ( /\ getCalls[c1].group = getCalls[c2].group
            /\ getCalls[c1].clears = getCalls[c2].clears
            /\ getCalls[c1].result = "fulfilled"
            /\ getCalls[c2].result = "fulfilled" )
          => getCalls[c1].inst = getCalls[c2].inst

\* The health calls of operation op that have returned
ReturnedHealth(op) ==
    { h \in DOMAIN health :
        health[h].op = op /\ health[h].result = "fulfilled" }

\* C19: healthCheckAll() returns the result of each of the three
\* healthCheck() calls unchanged, and overall is true exactly when database,
\* redis and kafka are all true.
C19_HealthAggregation ==
    \A h \in ReturnedHealth("healthCheckAll") :
        /\ health[h].value.database = health[h].checks["database"].value
        /\ health[h].value.redis = health[h].checks["redis"].value
        /\ health[h].value.kafka = health[h].checks["kafka"].value
        /\ health[h].value.overall <=>
              (\A b \in Backends : health[h].checks[b].value)

\* The spec's example: database healthy, redis not, kafka healthy
C19_Witness ==
    \E h \in ReturnedHealth("healthCheckAll") :
        /\ health[h].probe = [database |-> "ok", redis |-> "notPong",
                              kafka |-> "ok"]
        /\ health[h].value = [database |-> TRUE, redis |-> FALSE,
                              kafka |-> TRUE, overall |-> FALSE]

\* C20: no healthCheck() and no healthCheckAll() rejects; a backend whose
\* probe failed is reported false, and so is overall; the process keeps
\* running.
C20_HealthNeverRaises ==
    /\ proc = "running"
    /\ \A h \in DOMAIN health :
        /\ health[h].result # "rejected"
        /\ \A b \in health[h].backends :
            /\ health[h].checks[b].state # "rejected"
            /\ (health[h].probe[b] = "fails" /\ health[h].result # "pending")
                 => /\ health[h].result = "fulfilled"
                    /\ health[h].value[b] = FALSE
                    /\ health[h].op = "healthCheckAll"
                         => health[h].value.overall = FALSE

\* Redis was lost after the startup connected it, its probe failed, its
\* healthCheck() returned false and healthCheckAll() reported it
C20_Witness ==
    /\ redis.losses > 0
    /\ proc = "running"
    /\ \E h \in ReturnedHealth("healthCheckAll") :
        /\ health[h].checks["redis"] = [state |-> "fulfilled", value |-> FALSE]
        /\ health[h].probe = [database |-> "ok", redis |-> "fails",
                              kafka |-> "ok"]
        /\ health[h].value = [database |-> TRUE, redis |-> FALSE,
                              kafka |-> TRUE, overall |-> FALSE]

\* C21: every healthCheckAll() that is called returns: a backend that never
\* answers its probe is timed out and reported false, the call does not
\* stay pending for ever.
C21_HealthCheckAllReturns ==
    \A h \in 1..MaxHealth :
        (h \in DOMAIN health /\ health[h].op = "healthCheckAll")
            ~> (h \in DOMAIN health /\ health[h].result = "fulfilled")

\* The connect() calls of initializeAll() call i that were rejected
FailedConnects(i) ==
    { k \in DOMAIN initAlls[i].calls :
        cmCalls[initAlls[i].calls[k]].result = "rejected" }

\* C22: an initializeAll() one of whose connect() calls failed is rejected
\* and never succeeds, and an initializeAll() that succeeds returns with
\* database, redis and kafka all connected.
C22_InitializeAllOrNothing ==
    \A i \in DOMAIN initAlls :
        /\ FailedConnects(i) # {} => initAlls[i].result # "fulfilled"
        /\ initAlls[i].result = "fulfilled"
              => \A b \in Backends : initAlls[i].connected[b]

\* The runs of the handler of connection.ts that have ended the process
ExitedCloseAllRuns ==
    { r \in DOMAIN shutdowns.runs :
        shutdowns.installed = "connections"
            /\ shutdowns.runs[r].exit # "none" }

\* C23: when the shutdown of connection.ts exits the process, the kafka
\* steps have run whatever the other disconnects did: the producer is
\* closed unless its own disconnect failed, and every cached consumer is
\* closed unless the disconnect of a consumer failed -- a failed step
\* does not keep the remaining steps from running.
C23_ShutdownBestEffort ==
    \A r \in ExitedCloseAllRuns :
        LET k == cmCalls[shutdowns.runs[r].calls["kafka"]]
            producerFailed ==
                k.result = "rejected" /\ k.after.phys # "disconnected"
            consumerFailed ==
                k.result = "rejected" /\ k.after.phys = "disconnected"
        IN /\ k.result # "pending"
           /\ k.before.phys = "connected"
                 => (producer = "disconnected" \/ producerFailed)
           /\ \A g \in CachedGroups :
                 \/ physConsumers[consumers[g].inst].state = "disconnected"
                 \/ consumerFailed

\* C24: once a termination signal has been received the process exits,
\* by the graceful path or by the hard timeout.
C24_SignalLeadsToExit ==
    (shutdowns.runs # <<>>) ~> (proc = "exited")

\* The calls of replayEvents
ReplayCalls == { i \in DOMAIN setups : setups[i].op = "replayEvents" }

\* C25: no two invocations of replayEvents use the same consumer group id
\* or the same physical consumer.
C25_ReplayGroupPerInvocation ==
    \A i, j \in ReplayCalls :
        i # j => /\ setups[i].group # setups[j].group
                 /\ setups[i].inst # setups[j].inst

\* The replay consumers that have joined their group
ReplayConsumers ==
    { g \in GroupIds : consumers[g].kind = "replay" /\ consumers[g].running }

\* C26: a replay consumer starts every topic it reads at the earliest
\* offset, so that the records present when replayEvents was called are
\* read.
C26_ReplayFromEarliest ==
    \A g \in ReplayConsumers :
        \A t \in consumers[g].topics : consumers[g].start[t] = 0

\* C27: a consumer that replayEvents put in the cache is eventually
\* disconnected and removed from the cache.
C27_ReplayConsumerTornDown ==
    \A g \in GroupIds :
        (consumers[g].kind = "replay" /\ consumers[g].cached)
            ~> ~consumers[g].cached

\* The publishEvent calls made for the dead-letter topic
DeadLetterWrites ==
    { w \in DOMAIN writes : writes[w].dest = DeadLetterTopic }

\* C28: a handleDeadLetterEvent whose publish failed is rejected once it
\* has settled, never fulfilled, and it made one publish with one send:
\* no retry.
C28_DeadLetterFailureSurfaces ==
    /\ \A c \in DOMAIN dlcalls :
          /\ dlcalls[c].w \in DeadLetterWrites
          /\ writes[dlcalls[c].w].attempts = 1
          /\ writes[dlcalls[c].w].promise = "rejected"
                => dlcalls[c].result \in {"pending", "rejected"}
          /\ dlcalls[c].result = "rejected"
                => writes[dlcalls[c].w].promise = "rejected"
    /\ Cardinality(DeadLetterWrites) = Len(dlcalls)

\* A handleDeadLetterEvent was rejected after its send failed, and the
\* dead-letter topic holds no record
C28_Witness ==
    \E c \in DOMAIN dlcalls :
        /\ dlcalls[c].result = "rejected"
        /\ writes[dlcalls[c].w].phys = "failed"
        /\ topics[DeadLetterTopic] = <<>>

\* A step that changes the registry is one register(type, handler): it
\* appends handler to the list of type and leaves the other lists alone
IsRegisterStep ==
    \E t \in RegistryTypes, h \in HandlerIds :
        /\ handlers'[t] = Append(handlers[t], h)
        /\ \A u \in RegistryTypes \ {t} : handlers'[u] = handlers[u]

\* A step that starts a dispatch invokes the handlers registered for the
\* event's type at that moment, each once, in registration order, and
\* nothing else
IsDispatchStep ==
    LET d == dispatches'[Len(dispatches')] IN
    /\ Len(dispatches') = Len(dispatches) + 1
    /\ d.hs = handlers[d.type]
    /\ DOMAIN d.calls = DOMAIN handlers[d.type]
    /\ DOMAIN d.run = DOMAIN handlers[d.type]
    /\ \A i \in DOMAIN d.calls : d.calls[i] = 1

\* C29: register(type, handler) appends to the list of type and changes no
\* other list; dispatch(event) invokes exactly the handlers registered for
\* event.type, once per registration and in registration order -- none
\* when the list is empty, none of another type -- and what a dispatch
\* invoked does not change afterwards.
C29_RegistryDispatchesRegistered ==
    [][/\ handlers' # handlers => IsRegisterStep
       /\ Len(dispatches') # Len(dispatches) => IsDispatchStep
       /\ \A d \in DOMAIN dispatches :
             /\ d \in DOMAIN dispatches'
             /\ dispatches'[d].hs = dispatches[d].hs
             /\ dispatches'[d].calls = dispatches[d].calls
             /\ dispatches'[d].type = dispatches[d].type]_vars

\* ORDER_CREATED was dispatched to its one handler while USER_CREATED has
\* a handler too
C29_Witness ==
    /\ handlers["USER_CREATED"] # <<>>
    /\ \E d \in DOMAIN dispatches :
          /\ dispatches[d].type = "ORDER_CREATED"
          /\ dispatches[d].hs = handlers["ORDER_CREATED"]
          /\ Len(dispatches[d].hs) = 1
          /\ dispatches[d].calls = <<1>>

\* The ids EventBus gave to the events it created, one entry per creation:
\* by the helpers, then by handleDeadLetterEvent
CreatedIds ==
    [h \in DOMAIN helpers |-> helpers[h].event.id]
        \o [c \in DOMAIN dlcalls |-> dlcalls[c].record.id]

\* C30: no two events created by the EventBus of a process have the same
\* id.
C30_EventIdsUnique ==
    \A i, j \in DOMAIN CreatedIds :
        i # j => CreatedIds[i] # CreatedIds[j]

\* The handler invocations group g made for records of write w
InvocationsOfWrite(g, w) ==
    { i \in DOMAIN invocations :
        invocations[i].group = g /\ invocations[i].by = w }

\* C31: a publishEvent whose batch the producer sent again after a
\* transient failure leaves at most one record of it in the topic, exactly
\* one once it has succeeded, and a consumer group is handed that record
\* at most once.
C31_RetriedWriteOneRecord ==
    \A w \in DOMAIN writes :
        writes[w].kind = "kafka" =>
            /\ Cardinality(RecordsBy(writes[w].dest, w)) <= 1
            /\ writes[w].promise = "fulfilled"
                  => Cardinality(RecordsBy(writes[w].dest, w)) = 1
            /\ \A g \in GroupIds : Cardinality(InvocationsOfWrite(g, w)) <= 1

\* A publishEvent succeeded on its second attempt and the consumer group
\* was handed its one record
C31_Witness ==
    \E w \in DOMAIN writes :
        /\ writes[w].attempts = 2
        /\ writes[w].promise = "fulfilled"
        /\ Cardinality(RecordsBy("order-events", w)) = 1
        /\ InvocationsOfWrite("order-group", w) # {}

\* C32: every getProducer() call that returns a producer returns one whose
\* connect() has completed successfully.
C32_ProducerHandedOutConnected ==
    \A c \in GetsOf("producer") :
        getCalls[c].result = "fulfilled" => getCalls[c].got = "connected"

\* C33: a publishRealTimeEvent call on an initialized bus hands its message
\* to the store whether or not subscribeToRealTimeEvents was called before:
\* the client never refuses it.
C33_PublishAfterSubscribe ==
    [][(/\ Len(writes') = Len(writes) + 1
        /\ writes'[Len(writes')].kind = "redis"
        /\ redisClient # "undefined")
       => writes'[Len(writes')].phys = "inflight"]_vars

\* The invocations the listener of subscribe call s started for inbound
\* message k
InvocationsOfCall(s, k) ==
    { i \in DOMAIN rtInvocations :
        /\ rtInvocations[i].listener = rtCalls[s].listener
        /\ rtInvocations[i].msg = k }

\* C34: the handler of a successful subscribeToRealTimeEvents call is
\* invoked exactly once for every message that arrives, after the call, on a
\* channel passed in that call, and not at all for a message on any other
\* channel.
C34_HandlerOnlyForOwnChannels ==
    \A s \in DOMAIN rtCalls :
        rtCalls[s].listener # 0 =>
            \A k \in DOMAIN inbound :
                k > listeners[rtCalls[s].listener].since =>
                    Cardinality(InvocationsOfCall(s, k)) =
                        IF inbound[k].channel \in rtCalls[s].channels
                        THEN 1 ELSE 0

\* Call c of op on kafka returns successfully in this step
KafkaCallReturns(op, c) ==
    /\ c \in DOMAIN cmCalls'
    /\ cmCalls'[c].op = op
    /\ cmCalls'[c].backend = "kafka"
    /\ cmCalls'[c].result = "fulfilled"
    /\ (c \in DOMAIN cmCalls => cmCalls[c].result = "pending")

\* C35: when KafkaConnection.disconnect() returns successfully, the producer
\* and every consumer obtained from getProducer() / getConsumer() are
\* disconnected and the consumer cache is empty, whether or not connect()
\* was called before.
C35_DisconnectClosesEveryClient ==
    [][\A c \in 1..MaxCalls :
          KafkaCallReturns("disconnect", c) =>
              /\ producer' # "connected"
              /\ CachedGroups' = {}
              /\ \A i \in DOMAIN physConsumers' :
                    physConsumers'[i].state # "connected"]_vars

\* A disconnect() of kafka that closed the producer has returned
KafkaWasDisconnected ==
    \E d \in DOMAIN cmCalls :
        /\ cmCalls[d].op = "disconnect"
        /\ cmCalls[d].backend = "kafka"
        /\ cmCalls[d].ops = 1
        /\ cmCalls[d].result = "fulfilled"

\* C36: when KafkaConnection.connect() returns successfully after a
\* disconnect(), the cached producer -- the one getProducer() returns -- is
\* connected.
C36_ReconnectGivesConnectedProducer ==
    [][\A c \in 1..MaxCalls :
          (KafkaWasDisconnected /\ KafkaCallReturns("connect", c)) =>
              producer' = "connected"]_vars

\* C37: RedisConnection.isHealthy() is true exactly when the client's
\* connection is open, and a disconnect() that returned successfully has
\* left no open connection behind.
C37_RedisHealthyIffOpen ==
    /\ IsHealthy <=> redis.phys = "open"
    /\ \A c \in DOMAIN cmCalls :
          (/\ cmCalls[c].op = "disconnect"
           /\ cmCalls[c].backend = "redis"
           /\ cmCalls[c].result = "fulfilled")
          => cmCalls[c].after.phys # "open"

\* initializeAll() call i ends rejected in this step
InitializeAllRejects(i) ==
    /\ i \in DOMAIN initAlls
    /\ initAlls[i].result = "pending"
    /\ initAlls'[i].result = "rejected"

\* C38: the connect() calls of an initializeAll() are those of database,
\* redis, kafka in this order, each made only after the one before it
\* succeeded; an initializeAll() that fails made no call after the one that
\* failed, and neither disconnects a backend nor changes the state of any.
C38_InitializeAllInOrder ==
    [][/\ \A i \in DOMAIN initAlls' :
             LET cs == initAlls'[i].calls IN
             /\ Len(cs) <= 3
             /\ \A k \in DOMAIN cs :
                   /\ cmCalls'[cs[k]].op = "connect"
                   /\ cmCalls'[cs[k]].backend =
                         <<"database", "redis", "kafka">>[k]
             /\ \A k \in 2..Len(cs) : cmCalls'[cs[k - 1]].result = "fulfilled"
             /\ initAlls'[i].result = "rejected"
                   => cmCalls'[cs[Len(cs)]].result = "rejected"
       /\ \A c \in DOMAIN cmCalls' : cmCalls'[c].op # "disconnect"
       /\ \A i \in 1..MaxInits :
             InitializeAllRejects(i)
                => UNCHANGED <<cmCalls, db, redis, kafka, producer>>]_vars

\* An initializeAll() failed at redis after it had connected the database,
\* which is still connected
C38_Witness ==
    \E i \in DOMAIN initAlls :
        /\ initAlls[i].result = "rejected"
        /\ Len(initAlls[i].calls) = 2
        /\ cmCalls[initAlls[i].calls[1]].ops = 1
        /\ db.phys = "open" /\ db.isConnected

\* The isRateLimited calls that returned limited = false
AdmittedCalls ==
    { c \in DOMAIN limiter.calls : limiter.calls[c].result = "admitted" }

\* C39: of the isRateLimited calls for one key whose Date.now() lies in a
\* window of windowMs, at most `limit' return limited = false, however the
\* store operations of concurrent calls interleave.
C39_AtMostLimitAdmitted ==
    \A a \in AdmittedCalls :
        LET call == limiter.calls[a] IN
        Cardinality({ c \in AdmittedCalls :
                        /\ call.now - call.windowMs < limiter.calls[c].now
                        /\ limiter.calls[c].now <= call.now })
            <= call.limit

====
